---- MODULE Spec2Model ----
(***************************************************************************)
(* Model of the liquid-handling orchestrator (src/oss_lib.py) and of the   *)
(* domain model it uses (src/oss_utils.py).                                *)
(*                                                                         *)
(* An Experiment is a record                                               *)
(*   location_map  : the dict loc_id -> Location, kept as the sequence of  *)
(*                   its items in insertion order (Python dicts iterate    *)
(*                   in insertion order and get_empty_well depends on it); *)
(*                   an item holds the REFERENCE of a Location object,     *)
(*   lh_slots_used : the list of liquid-handler slots, with repetitions,   *)
(*   heap          : the Location objects, by reference. Location is a     *)
(*                   mutable class and measure_absorbance mutates the      *)
(*                   object it got from the map, so identity matters.      *)
(* Every operation is an operator from an Experiment and the call's        *)
(* arguments to a result [exp, fault, cmds, ret]: the experiment after the *)
(* call, the exception raised ("" when the call returns), the commands     *)
(* sent to the operator and to the liquid handler, and the return value.   *)
(***************************************************************************)
EXTENDS Integers, Sequences, FiniteSets, TLC

\* ------------------------------------------------------------------------
\* Bounds of the model

\* number of location ids the calls of a behaviour choose from
NumIds == 2
\* largest number of reservoirs loaded before the behaviour starts
MaxPre == 11
\* longest destination list of a transfer
MaxDests == 2
\* longest target list of a measure_absorbance
MaxTargets == 2
MaxExp == 2

\* ------------------------------------------------------------------------
\* Domain model (src/oss_utils.py)

WORKBENCH_MAX_SLOTS == 20
LH_MAX_SLOTS == 12
WELLPLATE_MAX_WELLS == 96
WELLPLATE_ROW_SIZE == 8

\* the value of a slot that get_empty_slot / get_empty_workbench_slot
\* did not find (Python None)
NoneSlot == -1

\* the members of enum Labware, in definition (= iteration) order
Labware == <<"reservoir", "wellplate", "testtube", "cuvette">>

max_capacity(labware) ==
    CASE labware = "reservoir" -> 1000
      [] labware = "wellplate" -> 50
      [] labware = "testtube" -> 100
      [] labware = "cuvette" -> 100

min_capacity(labware) ==
    CASE labware = "reservoir" -> 50
      [] labware = "wellplate" -> 10
      [] labware = "testtube" -> 10
      [] labware = "cuvette" -> 10

RowLetters == <<"A", "B", "C", "D", "E", "F", "G", "H", "I", "J", "K", "L">>
Digits == <<"0", "1", "2", "3", "4", "5", "6", "7", "8", "9">>

\* chr(well_id // WELLPLATE_ROW_SIZE + ord('A')) + str(well_id % WELLPLATE_ROW_SIZE)
well_id_int_to_str(well_id) ==
    RowLetters[(well_id \div WELLPLATE_ROW_SIZE) + 1]
        \o Digits[(well_id % WELLPLATE_ROW_SIZE) + 1]

\* a Location object's fields
Location(equipment, slot, labware, well_id) ==
    [equipment |-> equipment, slot |-> slot, labware |-> labware,
     well_id |-> well_id]

\* no Location: a free heap cell, an absent command argument
NoLoc == Location("none", NoneSlot, "none", "")

\* LocationId defines neither __eq__ nor __hash__: a LocationId key never
\* equals an int
LocationIdEqualsInt(loc_id, n) == FALSE

\* ------------------------------------------------------------------------
\* Ids, references, inputs

Ids == 1..NumIds
PreId(k) == 100 + k
PreIds == {PreId(k) : k \in 1..MaxPre}
AllIds == Ids \cup PreIds
Refs == 1..(NumIds + MaxPre + 1)

\* the sources of a transfer: an id of the call's own, or the first of the
\* reservoirs loaded beforehand
Sources == Ids \cup {PreId(1)}

\* volumes of load and transfer: wellplate, test tube, above every capacity
Volumes == {50, 75, 1001}
\* volumes of a bare allocation: the edges of every capacity range
AllocVolumes == {0, 9, 10, 50, 51, 100, 101, 1000, 1001}

SeqsUpTo(S, n) == UNION {[1..k -> S] : k \in 1..n}
Range(s) == {s[i] : i \in DOMAIN s}
\* destination lists: no id twice
DestLists == {s \in SeqsUpTo(Ids, MaxDests) : Cardinality(Range(s)) = Len(s)}
TargetLists == {s \in SeqsUpTo(Ids, MaxTargets) : Cardinality(Range(s)) = Len(s)}

\* ------------------------------------------------------------------------
\* Results and commands

Result(exp, fault, cmds, ret) ==
    [exp |-> exp, fault |-> fault, cmds |-> cmds, ret |-> ret]

NoRet == [loc |-> NoLoc, is_new |-> FALSE, results |-> <<>>]

Cmd(k, loc, loc2, vol) == [k |-> k, loc |-> loc, loc2 |-> loc2, vol |-> vol]
\* operator: 'Move in place {dest}'
CmdPlace(loc) == Cmd("place", loc, NoLoc, 0)
\* operator: 'Move {a} to {b}'
CmdRelocate(a, b) == Cmd("relocate", a, b, 0)
\* operator: 'Move {vol}ul of {solution} to {loc}'
CmdReagent(vol, loc) == Cmd("reagent", loc, NoLoc, vol)
CmdMovePipette(loc) == Cmd("move_pipette", loc, NoLoc, 0)
CmdAspirate(vol) == Cmd("aspirate", NoLoc, NoLoc, vol)
CmdDispense(vol) == Cmd("dispense", NoLoc, NoLoc, vol)
CmdDiscardTip == Cmd("discard_tip", NoLoc, NoLoc, 0)
CmdOperator(k, loc) == Cmd(k, loc, NoLoc, 0)

\* the number of commands of kind k among cmds
CountCmd(cmds, k) == Cardinality({i \in DOMAIN cmds : cmds[i].k = k})

\* ------------------------------------------------------------------------
\* Experiment (src/oss_lib.py, class Experiment)

NewExperiment ==
    [location_map |-> <<>>, lh_slots_used |-> <<>>,
     heap |-> [r \in Refs |-> NoLoc]]

Keys(exp) == {exp.location_map[i].id : i \in DOMAIN exp.location_map}

is_exist_location(exp, loc_id) == loc_id \in Keys(exp)

\* the reference stored under loc_id (the caller has checked it exists)
get_location(exp, loc_id) ==
    LET i == CHOOSE j \in DOMAIN exp.location_map :
                 exp.location_map[j].id = loc_id
    IN exp.location_map[i].ref

\* the fields of the object stored under loc_id
LocOf(exp, loc_id) == exp.heap[get_location(exp, loc_id)]

\* the references the map holds
LiveRefs(exp) == {exp.location_map[i].ref : i \in DOMAIN exp.location_map}

\* Location(...): a new object, at a reference that no object has
NewLocation(exp, loc) ==
    LET r == CHOOSE x \in DOMAIN exp.heap :
                 /\ exp.heap[x] = NoLoc
                 /\ \A y \in DOMAIN exp.heap : exp.heap[y] = NoLoc => x <= y
    IN [exp |-> [exp EXCEPT !.heap[r] = loc], ref |-> r]

\* objects that nothing refers to any more are gone
Collect(exp) ==
    [exp EXCEPT !.heap = [r \in DOMAIN exp.heap |->
        IF r \in LiveRefs(exp) THEN exp.heap[r] ELSE NoLoc]]

\* del d[key]
DictDel(map, loc_id) == SelectSeq(map, LAMBDA item : item.id # loc_id)

\* set_location without the test for an existing key: the item is replaced
set_location_overwrite(exp, loc_id, ref) ==
    Result(
      [exp EXCEPT
         !.location_map = Append(DictDel(@, loc_id),
                                 [id |-> loc_id, ref |-> ref]),
         !.lh_slots_used =
             IF exp.heap[ref].equipment = "liquid_handler"
             THEN Append(@, exp.heap[ref].slot) ELSE @],
      "", <<>>, NoRet)

set_location(exp, loc_id, ref) ==
    IF is_exist_location(exp, loc_id)
    THEN Result(exp, "AlreadyBound", <<>>, NoRet)
    ELSE Result(
           [exp EXCEPT
              !.location_map = Append(@, [id |-> loc_id, ref |-> ref]),
              !.lh_slots_used =
                  IF exp.heap[ref].equipment = "liquid_handler"
                  THEN Append(@, exp.heap[ref].slot) ELSE @],
           "", <<>>, NoRet)

\* list.remove(x) that drops every occurrence
ListRemoveAll(list, x) == SelectSeq(list, LAMBDA y : y # x)

\* list.remove(x): drops the first occurrence
RECURSIVE ListRemove(_, _)
ListRemove(list, x) ==
    IF list = <<>> THEN <<>>
    ELSE IF Head(list) = x THEN Tail(list)
    ELSE <<Head(list)>> \o ListRemove(Tail(list), x)

release_location(exp, loc_id) ==
    IF is_exist_location(exp, loc_id)
    THEN IF LocOf(exp, loc_id).equipment = "liquid_handler"
         THEN IF LocOf(exp, loc_id).slot \in Range(exp.lh_slots_used)
              THEN Result(
                     [exp EXCEPT
                        !.lh_slots_used = ListRemove(@, LocOf(exp, loc_id).slot),
                        !.location_map = DictDel(@, loc_id)],
                     "", <<>>, NoRet)
              ELSE Result(exp, "ValueError", <<>>, NoRet)
         ELSE Result([exp EXCEPT !.location_map = DictDel(@, loc_id)],
                     "", <<>>, NoRet)
    ELSE Result(exp, "NotBound", <<>>, NoRet)

\* for slot in range(WORKBENCH_MAX_SLOTS): if slot not in self.location_map
get_empty_workbench_slot(exp) ==
    LET free == {slot \in 0..(WORKBENCH_MAX_SLOTS - 1) :
                    \A k \in Keys(exp) : ~LocationIdEqualsInt(k, slot)}
    IN IF free = {} THEN NoneSlot
       ELSE CHOOSE s \in free : \A t \in free : s <= t

\* get_empty_slot with range(1, LH_MAX_SLOTS + 1)
get_empty_slot_from_one(exp) ==
    LET free == {slot \in 1..LH_MAX_SLOTS :
                    slot \notin Range(exp.lh_slots_used)}
    IN IF free = {} THEN NoneSlot
       ELSE CHOOSE s \in free : \A t \in free : s <= t

\* get_empty_slot that looks at the reservoirs only
get_empty_slot_reservoirs(exp) ==
    LET used == {exp.heap[r].slot : r \in {x \in LiveRefs(exp) :
                    /\ exp.heap[x].equipment = "liquid_handler"
                    /\ exp.heap[x].labware = "reservoir"}}
        free == {slot \in 0..(LH_MAX_SLOTS - 1) : slot \notin used}
    IN IF free = {} THEN NoneSlot
       ELSE CHOOSE s \in free : \A t \in free : s <= t

\* get_empty_slot with range(LH_MAX_SLOTS + 1)
get_empty_slot_one_more(exp) ==
    LET free == {slot \in 0..LH_MAX_SLOTS :
                    slot \notin Range(exp.lh_slots_used)}
    IN IF free = {} THEN NoneSlot
       ELSE CHOOSE s \in free : \A t \in free : s <= t

\* for slot in range(LH_MAX_SLOTS): if slot not in self.lh_slots_used
get_empty_slot(exp) ==
    LET free == {slot \in 0..(LH_MAX_SLOTS - 1) :
                    slot \notin Range(exp.lh_slots_used)}
    IN IF free = {} THEN NoneSlot
       ELSE CHOOSE s \in free : \A t \in free : s <= t

\* the keys of slot_well_list in insertion order: the slots of the
\* wellplate locations on the liquid handler, by first appearance in the map
RECURSIVE PlateSlots(_, _, _)
PlateSlots(exp, i, acc) ==
    IF i > Len(exp.location_map) THEN acc
    ELSE LET l == exp.heap[exp.location_map[i].ref]
         IN IF /\ l.equipment = "liquid_handler"
               /\ l.labware = "wellplate"
               /\ l.slot \notin Range(acc)
            THEN PlateSlots(exp, i + 1, Append(acc, l.slot))
            ELSE PlateSlots(exp, i + 1, acc)

\* slot_well_list[slot]
WellsAt(exp, slot) ==
    {exp.heap[r].well_id : r \in {x \in LiveRefs(exp) :
        /\ exp.heap[x].equipment = "liquid_handler"
        /\ exp.heap[x].labware = "wellplate"
        /\ exp.heap[x].slot = slot}}

\* the loop without its test "well_str not in slot_well_list[slot]"
FirstFreeWellAtAny(taken, well) ==
    IF well >= WELLPLATE_MAX_WELLS THEN WELLPLATE_MAX_WELLS ELSE well

\* "for well in range(WELLPLATE_MAX_WELLS)": the first well from `well` on
\* whose name is not in slot_well_list[slot]; WELLPLATE_MAX_WELLS when none
RECURSIVE FirstFreeWellAt(_, _)
FirstFreeWellAt(taken, well) ==
    IF well >= WELLPLATE_MAX_WELLS THEN WELLPLATE_MAX_WELLS
    ELSE IF well_id_int_to_str(well) \notin taken THEN well
    ELSE FirstFreeWellAt(taken, well + 1)

\* "for slot in slot_well_list", from the i-th slot on
RECURSIVE FirstFreeWell(_, _, _)
FirstFreeWell(exp, slots, i) ==
    IF i > Len(slots) THEN NoLoc
    ELSE LET well == FirstFreeWellAt(WellsAt(exp, slots[i]), 0)
         IN IF well = WELLPLATE_MAX_WELLS
            THEN FirstFreeWell(exp, slots, i + 1)
            ELSE Location("liquid_handler", slots[i], "wellplate",
                          well_id_int_to_str(well))

\* get_empty_well that finds no well ever
get_empty_well_none(exp) == NoLoc

\* NoLoc stands for None
get_empty_well(exp) == FirstFreeWell(exp, PlateSlots(exp, 1, <<>>), 1)

\* ------------------------------------------------------------------------
\* OSS (src/oss_lib.py, class OSS)

\* _waste_reservoir = Location(Equipment.liquid_handler, 0, Labware.waste_reservoir, "")
waste_reservoir == Location("liquid_handler", 0, "waste_reservoir", "")

\* the loop with the comparison of the capacities turned round
RECURSIVE BestFitLargest(_, _, _)
BestFitLargest(vol, i, best_fit) ==
    IF i > Len(Labware) THEN best_fit
    ELSE IF /\ max_capacity(Labware[i]) >= vol
            /\ \/ best_fit = "none"
               \/ max_capacity(Labware[i]) > max_capacity(best_fit)
         THEN BestFitLargest(vol, i + 1, Labware[i])
         ELSE BestFitLargest(vol, i + 1, best_fit)

\* the loop that keeps the first labware that fits
RECURSIVE BestFitFirst(_, _, _)
BestFitFirst(vol, i, best_fit) ==
    IF i > Len(Labware) THEN best_fit
    ELSE IF max_capacity(Labware[i]) >= vol /\ best_fit = "none"
         THEN BestFitFirst(vol, i + 1, Labware[i])
         ELSE BestFitFirst(vol, i + 1, best_fit)

\* the loop "for labware in Labware" of __decide_location; "none" is None
RECURSIVE BestFit(_, _, _)
BestFit(vol, i, best_fit) ==
    IF i > Len(Labware) THEN best_fit
    ELSE IF /\ max_capacity(Labware[i]) >= vol
            /\ \/ best_fit = "none"
               \/ max_capacity(Labware[i]) < max_capacity(best_fit)
         THEN BestFit(vol, i + 1, Labware[i])
         ELSE BestFit(vol, i + 1, best_fit)

\* the labware kind __decide_location settles on ("none": it raises)
DecideLabware(vol, num_dests) ==
    IF num_dests > 1 /\ max_capacity("wellplate") > vol
    THEN "wellplate"
    ELSE BestFit(vol, 1, "none")

AllocRet(loc, is_new) == [loc |-> loc, is_new |-> is_new, results |-> <<>>]

\* __decide_location that marks the slot it hands out as used
decide_location_reserving(exp, vol, num_dests) ==
    LET best_fit == DecideLabware(vol, num_dests)
        empty_slot == get_empty_slot(exp)
        empty_well == get_empty_well(exp)
    IN IF best_fit = "none"
       THEN Result(exp, "CapacityExceeded", <<>>, NoRet)
       ELSE IF best_fit = "wellplate" /\ empty_well # NoLoc
       THEN Result(exp, "", <<>>, AllocRet(empty_well, FALSE))
       ELSE IF empty_slot = NoneSlot
       THEN Result(exp, "NoFreeSlot", <<>>, NoRet)
       ELSE Result([exp EXCEPT !.lh_slots_used = Append(@, empty_slot)],
                "", <<>>,
                AllocRet(Location("liquid_handler", empty_slot, best_fit, "A0"),
                         TRUE))

decide_location(exp, vol, num_dests) ==
    LET best_fit == DecideLabware(vol, num_dests)
        empty_slot == get_empty_slot(exp)
        empty_well == get_empty_well(exp)
    IN IF best_fit = "none"
       THEN Result(exp, "CapacityExceeded", <<>>, NoRet)
       ELSE IF best_fit = "wellplate" /\ empty_well # NoLoc
       THEN Result(exp, "", <<>>, AllocRet(empty_well, FALSE))
       ELSE IF empty_slot = NoneSlot
       THEN Result(exp, "NoFreeSlot", <<>>, NoRet)
       ELSE Result(exp, "", <<>>,
                AllocRet(Location("liquid_handler", empty_slot, best_fit, "A0"),
                         TRUE))

\* load that takes a slot and places a reservoir for a bound id as well
load_rebind(exp, vol, dest_id) ==
    LET empty_slot == get_empty_slot(exp)
        dest == Location("liquid_handler", empty_slot, "reservoir", "A0")
    IN IF empty_slot = NoneSlot
       THEN Result(exp, "NoFreeSlot", <<>>, NoRet)
       ELSE IF ~is_exist_location(exp, dest_id)
       THEN LET n == NewLocation(exp, dest)
                s == set_location(n.exp, dest_id, n.ref)
            IN Result(s.exp, "", <<CmdPlace(dest), CmdReagent(vol, dest)>>,
                      NoRet)
       ELSE Result([exp EXCEPT !.lh_slots_used = Append(@, empty_slot)], "",
                   <<CmdPlace(dest), CmdReagent(vol, dest)>>, NoRet)

\* load with the labware chosen to fit the volume, as transfer does
load_best_fit(exp, vol, dest_id) ==
    IF ~is_exist_location(exp, dest_id)
    THEN LET d == decide_location(exp, vol, 1)
             n == NewLocation(d.exp, d.ret.loc)
             s == set_location(n.exp, dest_id, n.ref)
         IN IF d.fault # "" THEN Result(exp, d.fault, <<>>, NoRet)
            ELSE Result(s.exp, "",
                        <<CmdPlace(d.ret.loc), CmdReagent(vol, d.ret.loc)>>,
                        NoRet)
    ELSE Result(exp, "", <<CmdReagent(vol, LocOf(exp, dest_id))>>, NoRet)

load(exp, vol, dest_id) ==
    IF ~is_exist_location(exp, dest_id)
    THEN LET empty_slot == get_empty_slot(exp)
         IN IF empty_slot = NoneSlot
            THEN Result(exp, "NoFreeSlot", <<>>, NoRet)
            ELSE LET dest == Location("liquid_handler", empty_slot,
                                      "reservoir", "A0")
                     n == NewLocation(exp, dest)
                     s == set_location(n.exp, dest_id, n.ref)
                 IN Result(s.exp, "",
                           <<CmdPlace(dest), CmdReagent(vol, dest)>>, NoRet)
    ELSE Result(exp, "", <<CmdReagent(vol, LocOf(exp, dest_id))>>, NoRet)

\* discard that releases the location whatever release_labware
discard_releasing(exp, vol, source_id, release_labware) ==
    IF ~is_exist_location(exp, source_id)
    THEN Result(exp, "UnknownLocation", <<>>, NoRet)
    ELSE LET src == LocOf(exp, source_id)
         IN Result(release_location(exp, source_id).exp, "",
                   <<CmdMovePipette(src), CmdAspirate(vol),
                     CmdMovePipette(waste_reservoir), CmdDispense(vol)>>,
                   NoRet)

discard(exp, vol, source_id, release_labware) ==
    IF ~is_exist_location(exp, source_id)
    THEN Result(exp, "UnknownLocation", <<>>, NoRet)
    ELSE LET src == LocOf(exp, source_id)
             c1 == IF src.equipment = "liquid_handler"
                   THEN <<CmdMovePipette(src), CmdAspirate(vol),
                          CmdMovePipette(waste_reservoir), CmdDispense(vol)>>
                   ELSE <<CmdOperator("discard_contents", src)>>
         IN IF release_labware
            \* exp.remove_location: Experiment has no such method
            THEN Result(exp, "AttributeError",
                        c1 \o <<CmdOperator("return_to_storage", src)>>, NoRet)
            ELSE Result(exp, "", c1, NoRet)

\* the loop with the tip discarded after every destination
RECURSIVE TransferLoopTip(_, _, _, _, _, _, _)
TransferLoopTip(exp, vol, source_id, dest_id, num_dests, i, cmds) ==
    IF i > Len(dest_id) THEN Result(exp, "", cmds, NoRet)
    ELSE LET id == dest_id[i]
             d == decide_location(exp, vol, num_dests)
             n == NewLocation(d.exp, d.ret.loc)
             s == set_location(n.exp, id, n.ref)
             bound == is_exist_location(exp, id)
             exp1 == IF bound THEN exp ELSE s.exp
             c1 == IF ~bound /\ d.ret.is_new
                   THEN Append(cmds, CmdPlace(d.ret.loc)) ELSE cmds
             c2 == c1 \o <<CmdMovePipette(LocOf(exp1, source_id)),
                           CmdAspirate(vol),
                           CmdMovePipette(LocOf(exp1, id)),
                           CmdDispense(vol),
                           CmdDiscardTip>>
         IN IF ~bound /\ d.fault # ""
            THEN Result(d.exp, d.fault, cmds, NoRet)
            ELSE TransferLoopTip(exp1, vol, source_id, dest_id, num_dests,
                                 i + 1, c2)

\* the loop of transfer taking the destinations from the last to the first
RECURSIVE TransferLoopBackward(_, _, _, _, _, _, _)
TransferLoopBackward(exp, vol, source_id, dest_id, num_dests, i, cmds) ==
    IF i > Len(dest_id) THEN Result(exp, "", cmds, NoRet)
    ELSE LET id == dest_id[Len(dest_id) + 1 - i]
             d == decide_location(exp, vol, num_dests)
             n == NewLocation(d.exp, d.ret.loc)
             s == set_location(n.exp, id, n.ref)
             bound == is_exist_location(exp, id)
             exp1 == IF bound THEN exp ELSE s.exp
             c1 == IF ~bound /\ d.ret.is_new
                   THEN Append(cmds, CmdPlace(d.ret.loc)) ELSE cmds
             c2 == c1 \o <<CmdMovePipette(LocOf(exp1, source_id)),
                           CmdAspirate(vol),
                           CmdMovePipette(LocOf(exp1, id)),
                           CmdDispense(vol)>>
         IN IF ~bound /\ d.fault # ""
            THEN Result(d.exp, d.fault, cmds, NoRet)
            ELSE TransferLoopBackward(exp1, vol, source_id, dest_id,
                                      num_dests, i + 1, c2)

\* the body of "for id in dest_id" of transfer, from the i-th destination on
RECURSIVE TransferLoop(_, _, _, _, _, _, _)
TransferLoop(exp, vol, source_id, dest_id, num_dests, i, cmds) ==
    IF i > Len(dest_id) THEN Result(exp, "", cmds, NoRet)
    ELSE LET id == dest_id[i]
             d == decide_location(exp, vol, num_dests)
             n == NewLocation(d.exp, d.ret.loc)
             s == set_location(n.exp, id, n.ref)
             bound == is_exist_location(exp, id)
             exp1 == IF bound THEN exp ELSE s.exp
             c1 == IF ~bound /\ d.ret.is_new
                   THEN Append(cmds, CmdPlace(d.ret.loc)) ELSE cmds
             c2 == c1 \o <<CmdMovePipette(LocOf(exp1, source_id)),
                           CmdAspirate(vol),
                           CmdMovePipette(LocOf(exp1, id)),
                           CmdDispense(vol)>>
         IN IF ~bound /\ d.fault # ""
            THEN Result(d.exp, d.fault, cmds, NoRet)
            ELSE TransferLoop(exp1, vol, source_id, dest_id, num_dests,
                              i + 1, c2)

\* transfer that gives the experiment back as it was when a destination
\* cannot be bound
transfer_rollback(exp, vol, source_id, dest_id, discard_tip, list_len) ==
    IF ~is_exist_location(exp, source_id)
    THEN Result(exp, "UnknownLocation", <<>>, NoRet)
    ELSE LET r == TransferLoop(exp, vol, source_id, dest_id,
                     IF list_len = NoneSlot THEN Len(dest_id) ELSE list_len,
                     1, <<>>)
         IN IF r.fault # "" THEN Result(exp, r.fault, r.cmds, NoRet)
            ELSE IF discard_tip
                 THEN Result(r.exp, "", Append(r.cmds, CmdDiscardTip), NoRet)
                 ELSE r

\* dest_id: the destination list; list_len: len(dest_id_list), or NoneSlot
\* when dest_id_list is None
transfer(exp, vol, source_id, dest_id, discard_tip, list_len) ==
    IF ~is_exist_location(exp, source_id)
    THEN Result(exp, "UnknownLocation", <<>>, NoRet)
    ELSE LET r == TransferLoop(exp, vol, source_id, dest_id,
                     IF list_len = NoneSlot THEN Len(dest_id) ELSE list_len,
                     1, <<>>)
         IN IF r.fault # "" THEN r
            ELSE IF discard_tip
                 THEN Result(r.exp, "", Append(r.cmds, CmdDiscardTip), NoRet)
                 ELSE r

\* for i in range(mix_count): aspirate, dispense
\* "for i in range(mix_count + 1)"
RECURSIVE MixCyclesInclusive(_, _)
MixCyclesInclusive(vol, mix_count) ==
    IF mix_count < 0 THEN <<>>
    ELSE <<CmdAspirate(vol), CmdDispense(vol)>>
             \o MixCyclesInclusive(vol, mix_count - 1)

RECURSIVE MixCycles(_, _)
MixCycles(vol, mix_count) ==
    IF mix_count <= 0 THEN <<>>
    ELSE <<CmdAspirate(vol), CmdDispense(vol)>> \o MixCycles(vol, mix_count - 1)

mix(exp, dest_id, vol, mix_count) ==
    IF ~is_exist_location(exp, dest_id)
    THEN Result(exp, "UnknownLocation", <<>>, NoRet)
    ELSE LET dest_ref == get_location(exp, dest_id)
             dest == exp.heap[dest_ref]
         IN IF dest.equipment # "liquid_handler"
            THEN LET d == decide_location(exp, vol, 1)
                     n == NewLocation(d.exp, d.ret.loc)
                     lh_dest == d.ret.loc
                     s1 == set_location(n.exp, dest_id, n.ref)
                     c1 == (IF d.ret.is_new THEN <<CmdPlace(lh_dest)>> ELSE <<>>)
                           \o <<CmdRelocate(dest, lh_dest),
                                CmdMovePipette(lh_dest)>>
                           \o MixCycles(vol, mix_count)
                     s2 == set_location(s1.exp, dest_id, dest_ref)
                 IN IF d.fault # "" THEN Result(d.exp, d.fault, <<>>, NoRet)
                    ELSE IF s1.fault # ""
                    THEN Result(s1.exp, s1.fault, <<>>, NoRet)
                    ELSE IF s2.fault # ""
                    THEN Result(s2.exp, s2.fault, c1, NoRet)
                    ELSE Result(s2.exp, "",
                            c1 \o <<CmdRelocate(lh_dest, dest), CmdDiscardTip>>,
                            NoRet)
            ELSE Result(exp, "",
                    <<CmdMovePipette(dest)>> \o MixCycles(vol, mix_count)
                        \o <<CmdDiscardTip>>, NoRet)

\* the wait loop reads _incubation_not_complete, which is False and is
\* assigned nowhere: the loop body never runs
incubate(exp, target_id) ==
    Result(exp, "", <<Cmd("incubate", NoLoc, NoLoc, Len(target_id))>>, NoRet)

\* the five commands of a measurement, after the one that moves the labware
MeasureCmds ==
    <<CmdOperator("select_absorbance", NoLoc),
      CmdOperator("set_parameters", NoLoc),
      CmdOperator("press_start", NoLoc),
      CmdOperator("upload_results", NoLoc)>>

\* "for id in target_id" of the single-wellplate branch: every id is bound
\* anew to the one object dest
RECURSIVE PlateRebind(_, _, _, _)
PlateRebind(exp, target_id, dest_ref, i) ==
    IF i > Len(target_id) THEN Result(exp, "", <<>>, NoRet)
    ELSE LET id == target_id[i]
             exp1 == [exp EXCEPT !.heap[dest_ref].well_id =
                                     LocOf(exp, id).well_id]
             r == release_location(exp1, id)
             s == set_location(r.exp, id, dest_ref)
         IN IF r.fault # "" THEN Result(r.exp, r.fault, <<>>, NoRet)
            ELSE IF s.fault # "" THEN Result(s.exp, s.fault, <<>>, NoRet)
            ELSE PlateRebind(s.exp, target_id, dest_ref, i + 1)

\* "for id in target_id" of the cuvette branch
RECURSIVE CuvetteLoop(_, _, _, _, _)
CuvetteLoop(exp, target_id, i, cmds, results) ==
    IF i > Len(target_id)
    THEN Result(exp, "", cmds, [NoRet EXCEPT !.results = results])
    ELSE LET id == target_id[i]
             dest_ref == get_location(exp, id)
             c1 == cmds \o <<CmdOperator("to_cuvette", exp.heap[dest_ref]),
                             CmdOperator("cuvette_to_spectroscope", NoLoc)>>
                        \o MeasureCmds
             slot == get_empty_workbench_slot(exp)
             exp1 == [exp EXCEPT !.heap[dest_ref].equipment = "workbench",
                                 !.heap[dest_ref].slot = slot]
             r == release_location(exp1, id)
             s == set_location(r.exp, id, dest_ref)
         IN IF slot = NoneSlot
            THEN Result(exp1, "NoFreeWorkbenchSlot", c1,
                        [NoRet EXCEPT !.results = Append(results, 1)])
            ELSE IF r.fault # "" THEN Result(r.exp, r.fault, c1, NoRet)
            ELSE IF s.fault # "" THEN Result(s.exp, s.fault, c1, NoRet)
            ELSE CuvetteLoop(s.exp, target_id, i + 1,
                    Append(c1, CmdOperator("cuvette_to", s.exp.heap[dest_ref])),
                    Append(results, 1))

\* measure_absorbance from "results = []" on: every id of target_id is bound
MeasureBound(exp, target_id) ==
    IF \A i \in DOMAIN target_id :
           LocOf(exp, target_id[i]).labware = "wellplate"
    THEN IF Cardinality({LocOf(exp, target_id[i]).slot :
                            i \in DOMAIN target_id}) > 1
         THEN Result(exp, "NotOneWellplate", <<>>, NoRet)
         ELSE IF target_id = <<>>
         \* target_id[0] of an empty list
         THEN Result(exp, "IndexError", <<>>, NoRet)
         ELSE LET dest_ref == get_location(exp, target_id[1])
                  c1 == <<CmdOperator("to_spectroscope", exp.heap[dest_ref])>>
                            \o MeasureCmds
                  results == [i \in DOMAIN target_id |-> 1]
                  slot == get_empty_workbench_slot(exp)
                  exp1 == [exp EXCEPT
                             !.heap[dest_ref].equipment = "workbench",
                             !.heap[dest_ref].slot = slot]
                  p == PlateRebind(exp1, target_id, dest_ref, 1)
              IN IF slot = NoneSlot
                 THEN Result(exp1, "NoFreeWorkbenchSlot", c1, NoRet)
                 ELSE IF p.fault # "" THEN Result(p.exp, p.fault, c1, NoRet)
                 ELSE Result(p.exp, "",
                         Append(c1, CmdOperator("wellplate_to",
                                                p.exp.heap[dest_ref])),
                         [NoRet EXCEPT !.results = results])
    ELSE CuvetteLoop(exp, target_id, 1, <<>>, <<>>)

\* the ids that are not bound are left out, and the others measured
measure_absorbance_skip(exp, targets, blank_id) ==
    MeasureBound(exp, SelectSeq(targets \o blank_id,
                                LAMBDA id : is_exist_location(exp, id)))

measure_absorbance(exp, targets, blank_id) ==
    LET target_id == targets \o blank_id
    IN IF \E i \in DOMAIN target_id : ~is_exist_location(exp, target_id[i])
       THEN Result(exp, "UnknownLocation", <<>>, NoRet)
       ELSE MeasureBound(exp, target_id)

\* ------------------------------------------------------------------------
\* State

VARIABLES
    next_exp_id,   \* OSS._next_exp_id
    exp_list,      \* OSS._exp_list: experiment id -> Experiment
    last,          \* the last call: its arguments, the experiment before it,
                   \* and its result
    script,        \* the application script that runs, its parameters and the
                   \* index of its next call
    proc,          \* the callers: the statement each one is at inside a call
                   \* that runs step by step, and the locals of that call
    device         \* the physical processes the operator has been told to start

vars == <<next_exp_id, exp_list, last, script, proc, device>>

\* exp_id: 1, the id the first experiment_init returns, unless said otherwise
Call(op, id, ids, ids2, vol, n, flag, pre, r) ==
    [exp_id |-> 1, op |-> op, id |-> id, ids |-> ids, ids2 |-> ids2, vol |-> vol, n |-> n,
     flag |-> flag, pre |-> pre, fault |-> r.fault, cmds |-> r.cmds,
     ret |-> r.ret]

\* the experiment after k loads of 200ul to k ids of its own
RECURSIVE Preloaded(_)
Preloaded(k) ==
    IF k = 0 THEN NewExperiment
    ELSE Collect(load(Preloaded(k - 1), 200, PreId(k)).exp)

\* no call is under way
NoCall ==
    Call("none", 0, <<>>, <<>>, 0, 0, FALSE, NewExperiment,
         Result(NewExperiment, "", <<>>, NoRet))

\* the callers of the OSS
Callers == {1, 2}

\* no caller is inside a call
NoProc == [c \in Callers |-> [pc |-> "idle"]]

\* no incubation and no measurement is under way
Quiet == [incubating |-> FALSE, measuring |-> FALSE]

\* no application script: the calls come one by one from a client
NoScript == [app |-> "none", n |-> 0, vol |-> 0, pc |-> 0]

\* one experiment_init has run, then no load, or loads that leave two slots
\* or one slot of the liquid handler
Init ==
    /\ next_exp_id = 1
    /\ \E k \in {0, MaxPre - 1, MaxPre} :
          exp_list = [e \in {1} |-> Preloaded(k)]
    /\ last = NoCall
    /\ script = NoScript
    /\ proc = NoProc
    /\ device = Quiet

\* the client is between two calls
Idle == last = NoCall /\ proc = NoProc

\* the call c of the client, whose result is r, runs as a whole
Done(e, c, r) ==
    /\ exp_list' = [exp_list EXCEPT ![e] = Collect(r.exp)]
    /\ last' = c
    /\ UNCHANGED <<next_exp_id, script, proc, device>>

\* the client has the result of its call and goes on to its next call
Return ==
    /\ last # NoCall
    /\ last' = NoCall
    /\ UNCHANGED <<next_exp_id, exp_list, script, proc, device>>

Load ==
    /\ Idle
    /\ \E e \in DOMAIN exp_list, vol \in Volumes, dest_id \in Ids :
        LET r == load(exp_list[e], vol, dest_id)
        IN Done(e, Call("load", dest_id, <<>>, <<>>, vol, 0, FALSE,
                        exp_list[e], r), r)

Discard ==
    /\ Idle
    /\ \E e \in DOMAIN exp_list, source_id \in Ids, release_labware \in BOOLEAN :
        LET r == discard(exp_list[e], 50, source_id, release_labware)
        IN Done(e, Call("discard", source_id, <<>>, <<>>, 50, 0,
                        release_labware, exp_list[e], r), r)

Transfer ==
    /\ Idle
    /\ \E e \in DOMAIN exp_list, vol \in Volumes, source_id \in Sources,
       dest_id \in DestLists, discard_tip \in BOOLEAN,
       list_len \in {NoneSlot, MaxDests} :
        /\ list_len # NoneSlot => Len(dest_id) = 1
        /\ source_id \notin Range(dest_id)
        /\ LET r == transfer(exp_list[e], vol, source_id, dest_id,
                             discard_tip, list_len)
           IN Done(e, Call("transfer", source_id, dest_id, <<>>, vol, list_len,
                           discard_tip, exp_list[e], r), r)

Mix ==
    /\ Idle
    /\ \E e \in DOMAIN exp_list, dest_id \in Ids, mix_count \in {0, 3} :
        LET r == mix(exp_list[e], dest_id, 50, mix_count)
        IN Done(e, Call("mix", dest_id, <<>>, <<>>, 50, mix_count, FALSE,
                        exp_list[e], r), r)

Incubate ==
    /\ Idle
    /\ \E e \in DOMAIN exp_list, target_id \in TargetLists :
        LET r == incubate(exp_list[e], target_id)
        IN Done(e, Call("incubate", 0, target_id, <<>>, 0, 0, FALSE,
                        exp_list[e], r), r)

MeasureAbsorbance ==
    /\ Idle
    /\ \E e \in DOMAIN exp_list, target_id \in TargetLists,
       blank_id \in {<<>>} \cup {<<i>> : i \in Ids} :
        LET r == measure_absorbance(exp_list[e], target_id, blank_id)
        IN Done(e, Call("measure_absorbance", 0, target_id, blank_id, 0, 0,
                        FALSE, exp_list[e], r), r)

\* a bare call of __decide_location
Allocate ==
    /\ Idle
    /\ \E e \in DOMAIN exp_list, vol \in AllocVolumes, num_dests \in 1..MaxDests :
        LET r == decide_location(exp_list[e], vol, num_dests)
        IN Done(e, Call("allocate", 0, <<>>, <<>>, vol, num_dests, FALSE,
                        exp_list[e], r), r)

Next ==
    \/ Load
    \/ Discard
    \/ Transfer
    \/ Mix
    \/ Incubate
    \/ MeasureAbsorbance
    \/ Allocate
    \/ Return

Spec == Init /\ [][Next]_vars

\* ------------------------------------------------------------------------
\* The Experiment's own operations, called one at a time

\* the locations a bare set_location is given
BindLocs ==
    {Location("liquid_handler", 0, "reservoir", "A0"),
     Location("liquid_handler", 1, "wellplate", "A0"),
     Location("liquid_handler", 1, "wellplate", "A1"),
     Location("workbench", 0, "testtube", "A0")}

Bind ==
    /\ Idle
    /\ \E e \in DOMAIN exp_list, loc_id \in Ids, loc \in BindLocs :
        LET n == NewLocation(exp_list[e], loc)
            r == set_location(n.exp, loc_id, n.ref)
        IN Done(e, Call("bind", loc_id, <<>>, <<>>, 0, 0, FALSE,
                        exp_list[e], r), r)

Release ==
    /\ Idle
    /\ \E e \in DOMAIN exp_list, loc_id \in Ids :
        LET r == release_location(exp_list[e], loc_id)
        IN Done(e, Call("release", loc_id, <<>>, <<>>, 0, 0, FALSE,
                        exp_list[e], r), r)

NextState ==
    \/ Bind
    \/ Release
    \/ Return

SpecState == Init /\ [][NextState]_vars

\* ------------------------------------------------------------------------
\* The application scripts: app_serial_dilution.py, app_gradient_mixing.py

\* the parameters the scripts set
num_wells == 8
base_vol == 9
stock_vol == 1
tot_vol == 100
num_mixes == 8
lowest_percent == 10
step_percent == 10

\* LocationId(str(i)) for the wells, and the ids of the reservoirs
loc_id(i) == 10 + i
base_id == 20
stock_id == 21
sol1_id == 22
sol2_id == 23

\* the values the scripts are run with: the ones they set, and one more each
WellCounts == {4, num_wells}
BaseVols == {base_vol, 60}
TotVols == {50, tot_vol}

\* one call of a script
SLoad(vol, dest_id) ==
    [op |-> "load", vol |-> vol, src |-> 0, ids |-> <<dest_id>>]
STransfer(vol, source_id, dest_id) ==
    [op |-> "transfer", vol |-> vol, src |-> source_id, ids |-> <<dest_id>>]
SMix(dest_id, vol) ==
    [op |-> "mix", vol |-> vol, src |-> 0, ids |-> <<dest_id>>]
SMeasure(target_id) ==
    [op |-> "measure_absorbance", vol |-> 0, src |-> 0, ids |-> target_id]

\* the calls of app_serial_dilution.py, in order, for n wells and a base
\* volume bv
SerialDilution(n, bv) ==
    <<SLoad(bv * n, base_id), SLoad(stock_vol, stock_id)>>
    \o [i \in 1..n |-> STransfer(bv, base_id, loc_id(i - 1))]
    \o <<STransfer(stock_vol, stock_id, loc_id(0)),
          SMix(loc_id(0), bv + stock_vol)>>
    \o [j \in 1..(2 * (n - 2)) |->
           IF j % 2 = 1
           THEN STransfer(stock_vol, loc_id((j - 1) \div 2),
                          loc_id((j - 1) \div 2 + 1))
           ELSE SMix(loc_id(j \div 2), bv + stock_vol)]
    \o <<SMeasure([i \in 1..n |-> loc_id(i - 1)])>>

\* the calls of app_gradient_mixing.py, in order, for n mixes of volume tv
GradientMixing(n, tv) ==
    <<SLoad(tv * n, sol1_id), SLoad(tv * n, sol2_id)>>
    \o [j \in 1..(3 * n) |->
           LET i == (j - 1) \div 3
               sol1_vol == (tv * (lowest_percent + step_percent * i)) \div 100
               sol2_vol == tv - sol1_vol
           IN CASE (j - 1) % 3 = 0 -> STransfer(sol1_vol, sol1_id, loc_id(i))
                [] (j - 1) % 3 = 1 -> STransfer(sol2_vol, sol2_id, loc_id(i))
                [] OTHER -> SMix(loc_id(i), tv)]
    \o <<SMeasure([i \in 1..n |-> loc_id(i - 1)])>>

Prog(sc) ==
    IF sc.app = "serial_dilution" THEN SerialDilution(sc.n, sc.vol)
    ELSE IF sc.app = "gradient_mixing" THEN GradientMixing(sc.n, sc.vol)
    ELSE <<>>

\* the script has called experiment_init and is at its first call
InitScript ==
    /\ next_exp_id = 1
    /\ exp_list = [e \in {1} |-> NewExperiment]
    /\ last = NoCall
    /\ proc = NoProc
    /\ device = Quiet
    /\ \/ \E n \in WellCounts, bv \in BaseVols :
             script = [app |-> "serial_dilution", n |-> n, vol |-> bv, pc |-> 1]
       \/ \E n \in WellCounts, tv \in TotVols :
             script = [app |-> "gradient_mixing", n |-> n, vol |-> tv, pc |-> 1]

\* the next call of the script is op: no call before it has raised
ScriptAt(op) ==
    /\ script.pc \in DOMAIN Prog(script)
    /\ last.fault = ""
    /\ Prog(script)[script.pc].op = op

NextCall == Prog(script)[script.pc]

\* the call runs as a whole and the script goes on to its next line
Step(c, r) ==
    /\ exp_list' = [exp_list EXCEPT ![1] = Collect(r.exp)]
    /\ last' = c
    /\ script' = [script EXCEPT !.pc = @ + 1]
    /\ UNCHANGED <<next_exp_id, proc, device>>

RunLoad ==
    /\ ScriptAt("load")
    /\ LET r == load(exp_list[1], NextCall.vol, NextCall.ids[1])
       IN Step(Call("load", NextCall.ids[1], <<>>, <<>>, NextCall.vol, 0,
                    FALSE, exp_list[1], r), r)

\* dest_id is one LocationId, discard_tip and dest_id_list have their defaults
RunTransfer ==
    /\ ScriptAt("transfer")
    /\ LET r == transfer(exp_list[1], NextCall.vol, NextCall.src,
                         NextCall.ids, TRUE, NoneSlot)
       IN Step(Call("transfer", NextCall.src, NextCall.ids, <<>>,
                    NextCall.vol, NoneSlot, TRUE, exp_list[1], r), r)

\* mix_count has its default
RunMix ==
    /\ ScriptAt("mix")
    /\ LET r == mix(exp_list[1], NextCall.ids[1], NextCall.vol, 3)
       IN Step(Call("mix", NextCall.ids[1], <<>>, <<>>, NextCall.vol, 3,
                    FALSE, exp_list[1], r), r)

RunMeasure ==
    /\ ScriptAt("measure_absorbance")
    /\ LET r == measure_absorbance(exp_list[1], NextCall.ids, <<>>)
       IN Step(Call("measure_absorbance", 0, NextCall.ids, <<>>, 0, 0,
                    FALSE, exp_list[1], r), r)

NextScript ==
    \/ RunLoad
    \/ RunTransfer
    \/ RunMix
    \/ RunMeasure

SpecScript == InitScript /\ [][NextScript]_vars

\* ------------------------------------------------------------------------
\* The registry of experiments: experiment_init, experiment_end, and the
\* actions called with any experiment id

\* the ids the clients pass: the ones experiment_init can return, and one more
ExpIds == 1..(MaxExp + 1)

\* the one location id the clients of the registry use
RegId == 1

\* __get_experiment returns whatever experiment, a new one if need be
get_experiment_default(exps, exp_id) ==
    IF exp_id \in DOMAIN exps
    THEN Result(exps[exp_id], "", <<>>, NoRet)
    ELSE Result(NewExperiment, "", <<>>, NoRet)

\* __get_experiment
get_experiment(exps, exp_id) ==
    IF exp_id \in DOMAIN exps
    THEN Result(exps[exp_id], "", <<>>, NoRet)
    ELSE Result(NewExperiment, "UnknownExperiment", <<>>, NoRet)

\* "exp = self.__get_experiment(exp_id)", then the body Op of the action
OSSAction(exps, exp_id, Op(_)) ==
    LET g == get_experiment(exps, exp_id)
    IN IF g.fault # "" THEN g ELSE Op(g.exp)

\* one table and one list of slots for all experiments: exp is every
\* experiment of the registry
StoreShared(exps, exp_id, exp) == [e \in DOMAIN exps \cup {exp_id} |-> exp]

\* _exp_list with exp stored under exp_id
Store(exps, exp_id, exp) ==
    [e \in DOMAIN exps \cup {exp_id} |-> IF e = exp_id THEN exp ELSE exps[e]]

\* del _exp_list[exp_id]
Delete(exps, exp_id) == [e \in DOMAIN exps \ {exp_id} |-> exps[e]]

\* no experiment_init has run
InitRegistry ==
    /\ next_exp_id = 0
    /\ exp_list = <<>>
    /\ last = NoCall
    /\ script = NoScript
    /\ proc = NoProc
    /\ device = Quiet

\* the action called with exp_id, whose result is r, runs as a whole
DoneAction(exp_id, c, r) ==
    /\ exp_list' = IF r.fault = "UnknownExperiment" THEN exp_list
                   ELSE Store(exp_list, exp_id, Collect(r.exp))
    /\ last' = [c EXCEPT !.exp_id = exp_id]
    /\ UNCHANGED <<next_exp_id, script, proc, device>>

\* experiment_init gives the lowest id that is not registered
ExperimentInitReuse ==
    /\ Idle
    /\ next_exp_id < MaxExp
    /\ next_exp_id' = next_exp_id + 1
    /\ LET new_id == CHOOSE e \in ExpIds :
                        /\ e \notin DOMAIN exp_list
                        /\ \A f \in 1..(e - 1) : f \in DOMAIN exp_list
       IN /\ exp_list' = Store(exp_list, new_id, NewExperiment)
          /\ last' = [Call("experiment_init", new_id, <<>>, <<>>, 0, 0,
                           FALSE, NewExperiment,
                           Result(NewExperiment, "", <<>>, NoRet))
                          EXCEPT !.exp_id = new_id]
    /\ UNCHANGED <<script, proc, device>>

ExperimentInit ==
    /\ Idle
    /\ next_exp_id < MaxExp
    /\ next_exp_id' = next_exp_id + 1
    /\ exp_list' = Store(exp_list, next_exp_id + 1, NewExperiment)
    /\ last' = [Call("experiment_init", next_exp_id + 1, <<>>, <<>>, 0, 0,
                     FALSE, NewExperiment,
                     Result(NewExperiment, "", <<>>, NoRet))
                    EXCEPT !.exp_id = next_exp_id + 1]
    /\ UNCHANGED <<script, proc, device>>

ExperimentEnd ==
    /\ Idle
    /\ \E exp_id \in ExpIds :
        /\ exp_list' = IF exp_id \in DOMAIN exp_list
                       THEN Delete(exp_list, exp_id) ELSE exp_list
        /\ last' = [Call("experiment_end", 0, <<>>, <<>>, 0, 0, FALSE,
                         NewExperiment,
                         Result(NewExperiment,
                                IF exp_id \in DOMAIN exp_list THEN ""
                                ELSE "UnknownExperiment", <<>>, NoRet))
                        EXCEPT !.exp_id = exp_id]
        /\ UNCHANGED <<next_exp_id, script, proc, device>>

LoadIn ==
    /\ Idle
    /\ \E exp_id \in ExpIds :
        LET r == OSSAction(exp_list, exp_id, LAMBDA exp : load(exp, 50, RegId))
        IN DoneAction(exp_id, Call("load", RegId, <<>>, <<>>, 50, 0, FALSE,
                                   NewExperiment, r), r)

DiscardIn ==
    /\ Idle
    /\ \E exp_id \in ExpIds :
        LET r == OSSAction(exp_list, exp_id,
                           LAMBDA exp : discard(exp, 50, RegId, FALSE))
        IN DoneAction(exp_id, Call("discard", RegId, <<>>, <<>>, 50, 0, FALSE,
                                   NewExperiment, r), r)

TransferIn ==
    /\ Idle
    /\ \E exp_id \in ExpIds :
        LET r == OSSAction(exp_list, exp_id,
                   LAMBDA exp : transfer(exp, 50, RegId, <<RegId>>, TRUE,
                                         NoneSlot))
        IN DoneAction(exp_id, Call("transfer", RegId, <<RegId>>, <<>>, 50,
                                   NoneSlot, TRUE, NewExperiment, r), r)

MixIn ==
    /\ Idle
    /\ \E exp_id \in ExpIds :
        LET r == OSSAction(exp_list, exp_id, LAMBDA exp : mix(exp, RegId, 50, 3))
        IN DoneAction(exp_id, Call("mix", RegId, <<>>, <<>>, 50, 3, FALSE,
                                   NewExperiment, r), r)

IncubateIn ==
    /\ Idle
    /\ \E exp_id \in ExpIds :
        LET r == OSSAction(exp_list, exp_id,
                           LAMBDA exp : incubate(exp, <<RegId>>))
        IN DoneAction(exp_id, Call("incubate", 0, <<RegId>>, <<>>, 0, 0, FALSE,
                                   NewExperiment, r), r)

MeasureAbsorbanceIn ==
    /\ Idle
    /\ \E exp_id \in ExpIds :
        LET r == OSSAction(exp_list, exp_id,
                   LAMBDA exp : measure_absorbance(exp, <<RegId>>, <<>>))
        IN DoneAction(exp_id, Call("measure_absorbance", 0, <<RegId>>, <<>>,
                                   0, 0, FALSE, NewExperiment, r), r)

NextRegistry ==
    \/ ExperimentInit
    \/ ExperimentEnd
    \/ LoadIn
    \/ DiscardIn
    \/ TransferIn
    \/ MixIn
    \/ IncubateIn
    \/ MeasureAbsorbanceIn
    \/ Return

SpecRegistry == InitRegistry /\ [][NextRegistry]_vars

\* ------------------------------------------------------------------------
\* incubate and measure_absorbance step by step: the command to the operator,
\* the wait loop, the return

\* _incubation_not_complete set
incubation_not_complete_set == TRUE

\* OSS._incubation_not_complete: False, and assigned nowhere
incubation_not_complete == FALSE

\* _results_not_ready set
results_not_ready_set == TRUE

\* OSS._results_not_ready: False, and assigned nowhere
results_not_ready == FALSE

\* the experiment after load(200, s) and transfer(50, s, a) for the first of
\* the ids: a is a well of a plate
WithPlate ==
    Collect(transfer(Preloaded(1), 50, PreId(1), <<1>>, TRUE, NoneSlot).exp)

\* one experiment_init has run, then nothing, or the calls of WithPlate
InitWait ==
    /\ next_exp_id = 1
    /\ \E exp \in {NewExperiment, WithPlate} : exp_list = [e \in {1} |-> exp]
    /\ last = NoCall
    /\ script = NoScript
    /\ proc = NoProc
    /\ device = Quiet

\* caller 1 is in the wait loop pc of the call c, whose result will be r,
\* with `waits` loops to get through
Waiting(pc, c, r, waits) ==
    [proc EXCEPT ![1] = [pc |-> pc, call |-> c, exp |-> Collect(r.exp),
                         waits |-> waits]]

\* incubate up to its wait loop: the operator is told to incubate
IncubateStart ==
    /\ Idle
    /\ \E target_id \in TargetLists :
        LET r == incubate(exp_list[1], target_id)
        IN /\ proc' = Waiting("wait_incubation",
                               Call("incubate", 0, target_id, <<>>, 0, 0, FALSE,
                                    exp_list[1], r), r, 1)
           /\ device' = [device EXCEPT !.incubating = TRUE]
           /\ UNCHANGED <<next_exp_id, exp_list, last, script>>

\* "while(self._incubation_not_complete): time.sleep(1)", one test of the
\* flag, then the return
IncubatePoll ==
    /\ proc[1].pc = "wait_incubation"
    /\ IF incubation_not_complete
       THEN UNCHANGED vars
       ELSE /\ last' = proc[1].call
            /\ exp_list' = [exp_list EXCEPT ![1] = proc[1].exp]
            /\ proc' = NoProc
            /\ UNCHANGED <<next_exp_id, script, device>>

\* the incubator is done
IncubationCompletes ==
    /\ device.incubating
    /\ device' = [device EXCEPT !.incubating = FALSE]
    /\ UNCHANGED <<next_exp_id, exp_list, last, script, proc>>

\* measure_absorbance up to its first wait loop: the operator is told to
\* start the measurement; a call that raises before that returns at once
MeasureStart ==
    /\ Idle
    /\ \E target_id \in TargetLists :
        LET r == measure_absorbance(exp_list[1], target_id, <<>>)
            c == Call("measure_absorbance", 0, target_id, <<>>, 0, 0, FALSE,
                      exp_list[1], r)
            waits == CountCmd(r.cmds, "press_start")
        IN IF waits = 0
           THEN /\ last' = c
                /\ exp_list' = [exp_list EXCEPT ![1] = Collect(r.exp)]
                /\ UNCHANGED <<next_exp_id, script, proc, device>>
           ELSE /\ proc' = Waiting("wait_results", c, r, waits)
                /\ device' = [device EXCEPT !.measuring = TRUE]
                /\ UNCHANGED <<next_exp_id, exp_list, last, script>>

\* "while(self._results_not_ready): time.sleep(1)", one test of the flag,
\* then the next measurement of the call, or the return
MeasurePoll ==
    /\ proc[1].pc = "wait_results"
    /\ IF results_not_ready
       THEN UNCHANGED vars
       ELSE IF proc[1].waits > 1
       THEN /\ proc' = [proc EXCEPT ![1].waits = @ - 1]
            /\ UNCHANGED <<next_exp_id, exp_list, last, script, device>>
       ELSE /\ last' = proc[1].call
            /\ exp_list' = [exp_list EXCEPT ![1] = proc[1].exp]
            /\ proc' = NoProc
            /\ UNCHANGED <<next_exp_id, script, device>>

\* the spectroscope has the results
ResultsReady ==
    /\ device.measuring
    /\ device' = [device EXCEPT !.measuring = FALSE]
    /\ UNCHANGED <<next_exp_id, exp_list, last, script, proc>>

NextWait ==
    \/ Load
    \/ IncubateStart
    \/ IncubatePoll
    \/ IncubationCompletes
    \/ MeasureStart
    \/ MeasurePoll
    \/ ResultsReady
    \/ Return

SpecWait == InitWait /\ [][NextWait]_vars

\* the caller's own steps are taken; the incubator and the spectroscope may
\* never be done
SpecWaitFair ==
    /\ InitWait
    /\ [][NextWait]_vars
    /\ WF_vars(IncubatePoll)
    /\ WF_vars(MeasurePoll)

\* ------------------------------------------------------------------------
\* experiment_init called by two threads: the statements of the method, and
\* the read and the write of "OSS._next_exp_id += 1", are steps of their own

\* caller c is at pc; n is the value it holds (the counter it has read, the
\* id it has been returned)
At(c, pc, n) == [proc EXCEPT ![c] = [pc |-> pc, n |-> n]]

\* "OSS._next_exp_id += 1": the read of the counter
InitRead ==
    /\ last = NoCall
    /\ next_exp_id < MaxExp
    /\ \E c \in Callers :
        /\ proc[c].pc = "idle"
        /\ proc' = At(c, "init_incr", next_exp_id)
    /\ UNCHANGED <<next_exp_id, exp_list, last, script, device>>

\* "OSS._next_exp_id += 1": the write of the value read, plus one
InitWrite ==
    /\ \E c \in Callers :
        /\ proc[c].pc = "init_incr"
        /\ next_exp_id' = proc[c].n + 1
        /\ proc' = At(c, "init_store", 0)
    /\ UNCHANGED <<exp_list, last, script, device>>

\* "new_exp = Experiment(OSS._next_exp_id, name)" and
\* "OSS._exp_list[OSS._next_exp_id] = new_exp"
InitStore ==
    /\ \E c \in Callers :
        /\ proc[c].pc = "init_store"
        /\ exp_list' = Store(exp_list, next_exp_id, NewExperiment)
        /\ proc' = At(c, "init_return", 0)
    /\ UNCHANGED <<next_exp_id, last, script, device>>

\* "return OSS._next_exp_id"
InitReturn ==
    /\ \E c \in Callers :
        /\ proc[c].pc = "init_return"
        /\ proc' = At(c, "init_returned", next_exp_id)
    /\ UNCHANGED <<next_exp_id, exp_list, last, script, device>>

\* the caller has taken the id and may call again
InitTaken ==
    /\ \E c \in Callers :
        /\ proc[c].pc = "init_returned"
        /\ proc' = [proc EXCEPT ![c] = [pc |-> "idle"]]
    /\ UNCHANGED <<next_exp_id, exp_list, last, script, device>>

NextInit ==
    \/ InitRead
    \/ InitWrite
    \/ InitStore
    \/ InitReturn
    \/ InitTaken

SpecInit == InitRegistry /\ [][NextInit]_vars

\* ------------------------------------------------------------------------
\* load and transfer called by two threads for one experiment: the lookup of
\* the free slot (or well) and set_location are steps of their own

\* the experiment is new, or holds the reservoir the transfers draw from
InitBind ==
    /\ next_exp_id = 1
    /\ \E exp \in {NewExperiment, Preloaded(1)} : exp_list = [e \in {1} |-> exp]
    /\ last = NoCall
    /\ script = NoScript
    /\ proc = NoProc
    /\ device = Quiet

\* caller c is at pc, with the id it binds and the location it has made
Binding(c, pc, id, loc) ==
    [proc EXCEPT ![c] = [pc |-> pc, id |-> id, loc |-> loc]]

\* load up to "dest = Location(...)": dest_id is not bound and
\* get_empty_slot has given a slot
LoadLookup ==
    /\ last = NoCall
    /\ \E c \in Callers, dest_id \in Ids :
        /\ proc[c].pc = "idle"
        /\ ~is_exist_location(exp_list[1], dest_id)
        /\ get_empty_slot(exp_list[1]) # NoneSlot
        /\ proc' = Binding(c, "load_bind", dest_id,
                           Location("liquid_handler",
                                    get_empty_slot(exp_list[1]),
                                    "reservoir", "A0"))
    /\ UNCHANGED <<next_exp_id, exp_list, last, script, device>>

\* transfer to one destination up to "dest, is_new = __decide_location(...)":
\* the source is bound, the destination is not
TransferLookup ==
    /\ last = NoCall
    /\ \E c \in Callers, dest_id \in Ids, vol \in {50, 75} :
        LET d == decide_location(exp_list[1], vol, 1)
        IN /\ proc[c].pc = "idle"
           /\ is_exist_location(exp_list[1], PreId(1))
           /\ ~is_exist_location(exp_list[1], dest_id)
           /\ d.fault = ""
           /\ proc' = Binding(c, "transfer_bind", dest_id, d.ret.loc)
    /\ UNCHANGED <<next_exp_id, exp_list, last, script, device>>

\* "exp.set_location(dest_id, dest)" of caller c, which then is at pc
SetLocation(c, pc) ==
    LET n == NewLocation(exp_list[1], proc[c].loc)
        s == set_location(n.exp, proc[c].id, n.ref)
    IN /\ exp_list' = [exp_list EXCEPT ![1] = Collect(s.exp)]
       /\ proc' = Binding(c, IF s.fault = "" THEN pc ELSE "raised",
                          proc[c].id, proc[c].loc)

LoadBind ==
    /\ \E c \in Callers :
        /\ proc[c].pc = "load_bind"
        /\ SetLocation(c, "bound")
    /\ UNCHANGED <<next_exp_id, last, script, device>>

TransferBind ==
    /\ \E c \in Callers :
        /\ proc[c].pc = "transfer_bind"
        /\ SetLocation(c, "bound")
    /\ UNCHANGED <<next_exp_id, last, script, device>>

NextBind ==
    \/ LoadLookup
    \/ TransferLookup
    \/ LoadBind
    \/ TransferBind

SpecBind == InitBind /\ [][NextBind]_vars

\* ------------------------------------------------------------------------
\* A client that fills plates: transfers of 50ul from one reservoir, each to
\* one id that is not bound, as many as fill a plate and more

\* the references of an experiment with that many locations
PackRefs == 1..(LH_MAX_SLOTS + WELLPLATE_MAX_WELLS + 2)

\* the k-th id the client transfers to
PackId(k) == 200 + k

\* the experiment holds 1 reservoir, or as many as leave one slot free
InitPack ==
    /\ next_exp_id = 1
    /\ \E k \in {1, LH_MAX_SLOTS - 1} :
          exp_list = [e \in {1} |->
              [Preloaded(k) EXCEPT !.heap =
                  [r \in PackRefs |-> IF r \in Refs THEN @[r] ELSE NoLoc]]]
    /\ last = NoCall
    /\ script = NoScript
    /\ proc = NoProc
    /\ device = Quiet

PackTransfer ==
    /\ Idle
    /\ Len(exp_list[1].location_map) < LH_MAX_SLOTS + WELLPLATE_MAX_WELLS + 1
    /\ LET dest_id == PackId(Len(exp_list[1].location_map))
           r == transfer(exp_list[1], 50, PreId(1), <<dest_id>>, TRUE,
                         NoneSlot)
       IN Done(1, Call("transfer", PreId(1), <<dest_id>>, <<>>, 50, NoneSlot,
                       TRUE, exp_list[1], r), r)

NextPack ==
    \/ PackTransfer
    \/ Allocate
    \/ Return

SpecPack == InitPack /\ [][NextPack]_vars

\* ------------------------------------------------------------------------
\* ResearcherLib.wash (src/researcher_lib.py)

\* "self._oss.discard(exp_id, id)": discard has no default for vol, the call
\* raises TypeError before the body of discard runs
WashDiscard(exp, id) == Result(exp, "TypeError", <<>>, NoRet)

\* the rounds of wash from the k-th on (k from 0): round k is for the target
\* k % len(target_id) of the cycle k \div len(target_id)
RECURSIVE WashRounds(_, _, _, _, _, _, _, _)

\* the round k after its discard, whose result is d
WashAfterDiscard(d, target_id, wash_buffer, wash_volume, wash_cycles, mix_cycles, k, cmds) ==
    IF d.fault # "" THEN Result(d.exp, d.fault, cmds \o d.cmds, NoRet)
    ELSE WashRounds(d.exp, target_id, wash_buffer, wash_volume, wash_cycles,
                    mix_cycles, k + 1, cmds \o d.cmds)

\* the round k after its mix, whose result is m
WashAfterMix(m, target_id, wash_buffer, wash_volume, wash_cycles, mix_cycles, k, cmds) ==
    IF m.fault # "" THEN Result(m.exp, m.fault, cmds \o m.cmds, NoRet)
    ELSE WashAfterDiscard(
           WashDiscard(m.exp, target_id[(k % Len(target_id)) + 1]),
           target_id, wash_buffer, wash_volume, wash_cycles, mix_cycles, k,
           cmds \o m.cmds)

\* the round k after its transfer, whose result is t
WashAfterTransfer(t, target_id, wash_buffer, wash_volume, wash_cycles, mix_cycles, k, cmds) ==
    IF t.fault # "" THEN Result(t.exp, t.fault, cmds \o t.cmds, NoRet)
    ELSE WashAfterMix(
           mix(t.exp, target_id[(k % Len(target_id)) + 1], wash_volume,
               mix_cycles),
           target_id, wash_buffer, wash_volume, wash_cycles, mix_cycles, k,
           cmds \o t.cmds)

WashRounds(exp, target_id, wash_buffer, wash_volume, wash_cycles, mix_cycles, k, cmds) ==
    IF k >= wash_cycles * Len(target_id) THEN Result(exp, "", cmds, NoRet)
    ELSE WashAfterTransfer(
           transfer(exp, wash_volume, wash_buffer,
                    <<target_id[(k % Len(target_id)) + 1]>>, TRUE, NoneSlot),
           target_id, wash_buffer, wash_volume, wash_cycles, mix_cycles, k,
           cmds)

\* mix_volume is None: the mix is of wash_volume
wash(exp, target_id, wash_buffer, wash_volume, wash_cycles, mix_cycles) ==
    WashRounds(exp, target_id, wash_buffer, wash_volume, wash_cycles,
               mix_cycles, 0, <<>>)

\* the numbers of cycles wash is called with; 3 is its default
WashCycles == {0, 1, 3}

Wash ==
    /\ Idle
    /\ \E target_id \in TargetLists, wash_buffer \in Sources,
          wash_cycles \in WashCycles, mix_cycles \in {0, 1} :
        LET r == wash(exp_list[1], target_id, wash_buffer, 50, wash_cycles,
                      mix_cycles)
        IN Done(1, Call("wash", wash_buffer, target_id, <<>>, 50, wash_cycles,
                        mix_cycles > 0, exp_list[1], r), r)

NextWash ==
    \/ Load
    \/ Wash
    \/ Return

SpecWash == InitWait /\ [][NextWash]_vars

\* ------------------------------------------------------------------------
\* Properties

\* the experiment the calls act on
TheExp == exp_list[1]

Bound(exp) == Keys(exp)
OnLH(exp, id) == LocOf(exp, id).equipment = "liquid_handler"
AllSlotsUsed(exp) ==
    \A slot \in 0..(LH_MAX_SLOTS - 1) : slot \in Range(exp.lh_slots_used)

\* C1: set_location of an id that is bound fails with AlreadyBound and leaves
\* the location map, the Location objects and the slot list as they were.
C1_RebindFaults ==
    (last.op = "bind" /\ is_exist_location(last.pre, last.id))
        => /\ last.fault = "AlreadyBound"
           /\ TheExp = last.pre

C1_Witness ==
    /\ last.op = "bind"
    /\ is_exist_location(last.pre, last.id)
    /\ OnLH(last.pre, last.id)
    /\ last.fault = "AlreadyBound"

\* C2: two distinct ids bound on the liquid handler at the same slot are both
\* wells of a wellplate: no slot holds two labware items.
C2_OneLabwarePerSlot ==
    \A i \in DOMAIN TheExp.location_map, j \in DOMAIN TheExp.location_map :
        LET a == TheExp.heap[TheExp.location_map[i].ref]
            b == TheExp.heap[TheExp.location_map[j].ref]
        IN (/\ i # j
            /\ a.equipment = "liquid_handler"
            /\ b.equipment = "liquid_handler"
            /\ a.slot = b.slot)
               => /\ a.labware = "wellplate"
                  /\ b.labware = "wellplate"

\* two wells of one plate, given out by two calls, next to the reservoirs
C2_Witness ==
    /\ \E a \in Ids, b \in Ids :
          /\ a # b /\ {a, b} \subseteq Bound(TheExp)
          /\ OnLH(TheExp, a) /\ OnLH(TheExp, b)
          /\ LocOf(TheExp, a).slot = LocOf(TheExp, b).slot
    /\ \E c \in PreIds : c \in Bound(TheExp) /\ OnLH(TheExp, c)
    /\ last.op = "transfer" /\ Len(last.ids) = 1 /\ last.fault = ""

\* C3: no two distinct bound ids are at the same well of the same wellplate
\* (same equipment, same slot, same well).
C3_WellsDistinct ==
    \A a \in Bound(TheExp), b \in Bound(TheExp) :
        (/\ a # b
         /\ LocOf(TheExp, a).labware = "wellplate"
         /\ LocOf(TheExp, b).labware = "wellplate"
         /\ LocOf(TheExp, a).equipment = LocOf(TheExp, b).equipment
         /\ LocOf(TheExp, a).slot = LocOf(TheExp, b).slot)
            => LocOf(TheExp, a).well_id # LocOf(TheExp, b).well_id

\* C4: the labware of a location __decide_location returns has a capacity
\* range that covers the volume asked for.
C4_CapacityCovers ==
    (last.op = "allocate" /\ last.fault = "")
        => /\ min_capacity(last.ret.loc.labware) <= last.vol
           /\ last.vol <= max_capacity(last.ret.loc.labware)

\* C5: for one destination, the labware returned has the least max capacity
\* among the kinds whose max capacity is at least the volume; when no kind is
\* that large the call fails with CapacityExceeded and returns no location.
C5_BestFit ==
    (last.op = "allocate" /\ last.n = 1)
        => LET fits == {i \in DOMAIN Labware :
                           max_capacity(Labware[i]) >= last.vol}
           IN /\ fits = {} => /\ last.fault = "CapacityExceeded"
                              /\ last.ret.loc = NoLoc
              /\ fits # {} => last.fault # "CapacityExceeded"
              /\ last.fault = "" =>
                    /\ max_capacity(last.ret.loc.labware) >= last.vol
                    /\ \A i \in fits :
                          max_capacity(last.ret.loc.labware)
                              <= max_capacity(Labware[i])

\* a volume that the wellplate cannot take and the test tube can
C5_Witness ==
    /\ last.op = "allocate" /\ last.n = 1
    /\ last.vol > max_capacity("wellplate")
    /\ last.fault = ""
    /\ last.ret.loc.labware = "testtube"
    /\ Len(last.pre.location_map) > 0

\* C6: for more than one destination and a volume up to the wellplate's max
\* capacity, that capacity included, the location returned is on a wellplate
\* (the call fails only for want of a slot, never for capacity).
C6_Batching ==
    (last.op = "allocate" /\ last.n > 1 /\ max_capacity("wellplate") >= last.vol)
        => /\ last.fault \in {"", "NoFreeSlot"}
           /\ last.fault = "" => last.ret.loc.labware = "wellplate"

\* the volume equal to the wellplate's max capacity
C6_Witness ==
    /\ last.op = "allocate" /\ last.n > 1
    /\ last.vol = max_capacity("wellplate")
    /\ last.fault = ""
    /\ last.ret.loc.labware = "wellplate"

\* C7: with every liquid-handler slot in use, a load to an unbound id fails
\* with NoFreeSlot, and so does a __decide_location that cannot hand out a
\* well of a plate in place; the failing call binds nothing.
C7_SlotExhaustion ==
    AllSlotsUsed(last.pre) =>
        /\ (last.op = "load" /\ ~is_exist_location(last.pre, last.id))
              => last.fault = "NoFreeSlot" /\ TheExp = last.pre
        /\ (/\ last.op = "allocate"
            /\ \E i \in DOMAIN Labware : max_capacity(Labware[i]) >= last.vol
            /\ \/ last.vol > max_capacity("wellplate")
               \/ get_empty_well(last.pre) = NoLoc)
              => last.fault = "NoFreeSlot" /\ TheExp = last.pre

C7_Witness ==
    /\ AllSlotsUsed(last.pre)
    /\ Cardinality(Range(last.pre.lh_slots_used)) = LH_MAX_SLOTS
    /\ last.op = "load"
    /\ ~is_exist_location(last.pre, last.id)
    /\ last.fault = "NoFreeSlot"

\* C8: __decide_location changes nothing in the experiment, and the same call
\* made again right after it returns the same location and the same flag.
C8_AllocatePure ==
    last.op = "allocate"
        => /\ TheExp = last.pre
           /\ decide_location(TheExp, last.vol, last.n).fault = last.fault
           /\ decide_location(TheExp, last.vol, last.n).ret = last.ret

\* a new labware item at a free slot of an experiment that has bindings
C8_Witness ==
    /\ last.op = "allocate"
    /\ last.fault = ""
    /\ last.ret.is_new
    /\ Len(last.pre.location_map) > 0
    /\ \E id \in Ids : id \in Bound(last.pre)

\* C9: a transfer that returns has sent one discard_tip, as its last command
\* and right after the last dispense, when discard_tip is set, whatever the
\* number of destinations; none when it is not set.
C9_OneTipDiscard ==
    (last.op = "transfer" /\ last.fault = "")
        => IF last.flag
           THEN /\ CountCmd(last.cmds, "discard_tip") = 1
                /\ last.cmds[Len(last.cmds)].k = "discard_tip"
                /\ last.cmds[Len(last.cmds) - 1].k = "dispense"
                /\ CountCmd(last.cmds, "dispense") = Len(last.ids)
           ELSE CountCmd(last.cmds, "discard_tip") = 0

\* two destinations, one tip
C9_Witness ==
    /\ last.op = "transfer" /\ last.fault = ""
    /\ last.flag
    /\ Len(last.ids) > 1
    /\ CountCmd(last.cmds, "discard_tip") = 1

\* C10: a mix of a bound id that is not on the liquid handler returns, and the
\* id is bound after it to what it was bound to before.
C10_MixRestores ==
    (/\ last.op = "mix"
     /\ is_exist_location(last.pre, last.id)
     /\ ~OnLH(last.pre, last.id))
        => /\ last.fault = ""
           /\ is_exist_location(TheExp, last.id)
           /\ LocOf(TheExp, last.id) = LocOf(last.pre, last.id)

\* the ids a measure_absorbance went over: the targets, then the blanks
Measured == last.ids \o last.ids2

\* the call took the single-wellplate branch: every id measured was on a
\* wellplate before it
PlatePath ==
    /\ last.op = "measure_absorbance"
    /\ \A i \in DOMAIN Measured : is_exist_location(last.pre, Measured[i])
    /\ \A i \in DOMAIN Measured :
          LocOf(last.pre, Measured[i]).labware = "wellplate"

\* the call took the branch that measures the ids one at a time
CuvettePath ==
    /\ last.op = "measure_absorbance"
    /\ \A i \in DOMAIN Measured : is_exist_location(last.pre, Measured[i])
    /\ \E i \in DOMAIN Measured :
          LocOf(last.pre, Measured[i]).labware # "wellplate"

\* C11: after a measure_absorbance over ids that were all on one wellplate,
\* the ids are all bound on the workbench at one slot, and each id has the
\* well it had before the call.
C11_PlateWellsKept ==
    (PlatePath /\ last.fault = "")
        => /\ \A i \in DOMAIN Measured :
                /\ is_exist_location(TheExp, Measured[i])
                /\ LocOf(TheExp, Measured[i]).equipment = "workbench"
                /\ LocOf(TheExp, Measured[i]).slot
                       = LocOf(TheExp, Measured[1]).slot
           /\ \A i \in DOMAIN Measured :
                LocOf(TheExp, Measured[i]).well_id
                    = LocOf(last.pre, Measured[i]).well_id

\* the script runs with the values it sets itself
Nominal ==
    \/ script.app = "serial_dilution"
          /\ script.n = num_wells /\ script.vol = base_vol
    \/ script.app = "gradient_mixing"
          /\ script.n = num_mixes /\ script.vol = tot_vol

\* the script has made all its calls but the measure_absorbance
BeforeMeasure ==
    /\ script.pc = Len(Prog(script))
    /\ last.fault = ""

\* the script has made its measure_absorbance
AfterMeasure ==
    /\ script.pc = Len(Prog(script)) + 1
    /\ last.op = "measure_absorbance"

\* C12: in app_gradient_mixing.py the measure_absorbance over the 8 ids, all
\* on one wellplate, returns after one measurement (one press of start), not
\* one per id.
C12_GradientOneMeasurement ==
    (script.app = "gradient_mixing" /\ Nominal /\ AfterMeasure)
        => /\ last.fault = ""
           /\ PlatePath
           /\ CountCmd(last.cmds, "press_start") = 1
           /\ CountCmd(last.cmds, "to_cuvette") = 0

\* the ids of the wells of the script
WellIds == {loc_id(i) : i \in 0..(script.n - 1)}

\* C13: in app_serial_dilution.py, after the loads, the 8 transfers of base,
\* the transfer of stock with its mix and the 6 transfer and mix pairs, no
\* call has raised, the 8 ids are bound, and no two of them are at the same
\* well (same equipment, slot and well).
C13_DilutionWellsDistinct ==
    (script.app = "serial_dilution" /\ Nominal /\ script.pc = Len(Prog(script)))
        => /\ last.fault = ""
           /\ WellIds \subseteq Bound(TheExp)
           /\ \A a \in WellIds, b \in WellIds :
                 a # b => LocOf(TheExp, a) # LocOf(TheExp, b)

\* the 8 ids are wells A0..A7 of one plate, the last call was the sixth mix
C13_Witness ==
    /\ script.app = "serial_dilution" /\ Nominal /\ BeforeMeasure
    /\ last.op = "mix" /\ last.id = loc_id(num_wells - 2)
    /\ Cardinality(WellIds) = 8
    /\ \A a \in WellIds :
          /\ a \in Bound(TheExp)
          /\ LocOf(TheExp, a).labware = "wellplate"
          /\ LocOf(TheExp, a).slot = LocOf(TheExp, loc_id(0)).slot
    /\ {LocOf(TheExp, a).well_id : a \in WellIds}
           = {well_id_int_to_str(w) : w \in 0..7}

\* C14: a measure_absorbance over bound ids that are not all on one labware
\* item, two wellplates at different slots included, returns and has made one
\* measurement per id, through the cuvette.
C14_SpanningMeasured ==
    (/\ last.op = "measure_absorbance"
     /\ \A i \in DOMAIN Measured : is_exist_location(last.pre, Measured[i])
     /\ \E i \in DOMAIN Measured, j \in DOMAIN Measured :
           \/ LocOf(last.pre, Measured[i]).labware
                  # LocOf(last.pre, Measured[j]).labware
           \/ LocOf(last.pre, Measured[i]).slot
                  # LocOf(last.pre, Measured[j]).slot
           \/ LocOf(last.pre, Measured[i]).equipment
                  # LocOf(last.pre, Measured[j]).equipment)
        => /\ last.fault = ""
           /\ Len(last.ret.results) = Len(Measured)
           /\ CountCmd(last.cmds, "to_cuvette") = Len(Measured)
           /\ CountCmd(last.cmds, "press_start") = Len(Measured)

\* C15: after a measure_absorbance that went one id at a time over distinct
\* ids, each id is on the workbench at a slot of its own: no other bound id is
\* on the workbench at that slot.
C15_CuvetteSlotsDistinct ==
    (/\ CuvettePath
     /\ last.fault = ""
     /\ \A i \in DOMAIN Measured, j \in DOMAIN Measured :
           i # j => Measured[i] # Measured[j])
        => \A i \in DOMAIN Measured :
              /\ is_exist_location(TheExp, Measured[i])
              /\ LocOf(TheExp, Measured[i]).equipment = "workbench"
              /\ LocOf(TheExp, Measured[i]).slot \in 0..(WORKBENCH_MAX_SLOTS - 1)
              /\ \A x \in Bound(TheExp) :
                    (/\ x # Measured[i]
                     /\ LocOf(TheExp, x).equipment = "workbench")
                        => LocOf(TheExp, x).slot # LocOf(TheExp, Measured[i]).slot

\* the call has raised "location does not exist" at once: no command was
\* sent, and the experiment is as it was
RefusedUnknown ==
    /\ last.fault = "UnknownLocation"
    /\ last.cmds = <<>>
    /\ TheExp = last.pre

\* C16: a transfer whose source is not bound, a mix or a discard of an id
\* that is not bound, and a measure_absorbance with a target or a blank that
\* is not bound fail with UnknownLocation, send no command and leave the
\* location map and the slots in use as they were.
C16_UnknownLocation ==
    /\ (last.op \in {"transfer", "mix", "discard"}
        /\ ~is_exist_location(last.pre, last.id)) => RefusedUnknown
    /\ (last.op = "measure_absorbance"
        /\ \E i \in DOMAIN Measured :
              ~is_exist_location(last.pre, Measured[i])) => RefusedUnknown

\* a measure_absorbance of a bound target with a blank that is not bound
C16_Witness ==
    /\ last.op = "measure_absorbance"
    /\ Len(last.ids) = 1 /\ is_exist_location(last.pre, last.ids[1])
    /\ Len(last.ids2) = 1 /\ ~is_exist_location(last.pre, last.ids2[1])
    /\ RefusedUnknown

\* the names of the actions of the OSS and of experiment_end
ActionNames ==
    {"load", "transfer", "mix", "discard", "incubate", "measure_absorbance",
     "experiment_end"}

\* C17: an action or an experiment_end called with an experiment id that is
\* not registered (never returned by experiment_init, or ended since) fails
\* with UnknownExperiment, sends no command, and leaves the registry and
\* every experiment in it as they were.
C17_UnknownExperiment ==
    [][(last'.op \in ActionNames /\ last'.exp_id \notin DOMAIN exp_list)
          => /\ last'.fault = "UnknownExperiment"
             /\ last'.cmds = <<>>
             /\ exp_list' = exp_list
             /\ next_exp_id' = next_exp_id]_vars

\* a second experiment_end of an experiment, next to an experiment in which a
\* location is bound
C17_Witness ==
    /\ last.op = "experiment_end"
    /\ last.exp_id <= next_exp_id
    /\ last.exp_id \notin DOMAIN exp_list
    /\ last.fault = "UnknownExperiment"
    /\ \E e \in DOMAIN exp_list : Len(exp_list[e].location_map) > 0

\* the slots of the liquid handler that are not in lh_slots_used
FreeSlots(exp) ==
    {slot \in 0..(LH_MAX_SLOTS - 1) : slot \notin Range(exp.lh_slots_used)}

\* C18: a load to an id that is not bound, with a slot of the liquid handler
\* not in use, returns whatever the volume; the id is then bound to a
\* reservoir on the liquid handler at the lowest slot that was not in use,
\* and the commands sent are the placing of that reservoir, then the moving
\* of the reagent into it.
C18_LoadBinds ==
    (/\ last.op = "load"
     /\ ~is_exist_location(last.pre, last.id)
     /\ FreeSlots(last.pre) # {})
        => /\ last.fault = ""
           /\ is_exist_location(TheExp, last.id)
           /\ LET dest == LocOf(TheExp, last.id)
              IN /\ dest.equipment = "liquid_handler"
                 /\ dest.labware = "reservoir"
                 /\ dest.slot \in FreeSlots(last.pre)
                 /\ \A slot \in FreeSlots(last.pre) : dest.slot <= slot
                 /\ dest.slot \notin FreeSlots(TheExp)
                 /\ last.cmds = <<CmdPlace(dest), CmdReagent(last.vol, dest)>>

\* a load of more than any labware holds, to an experiment with slots in use
C18_Witness ==
    /\ last.op = "load"
    /\ ~is_exist_location(last.pre, last.id)
    /\ last.vol > max_capacity("reservoir")
    /\ last.pre.lh_slots_used # <<>>
    /\ last.fault = ""
    /\ LocOf(TheExp, last.id).labware = "reservoir"
    /\ LocOf(TheExp, last.id).slot > 0

\* C19: a load to an id that is bound returns, sends the moving of the
\* reagent to the id's location and nothing else, and leaves the location
\* map, the Location objects and the slots in use as they were, at every
\* repetition.
C19_LoadKeepsBinding ==
    (last.op = "load" /\ is_exist_location(last.pre, last.id))
        => /\ last.fault = ""
           /\ TheExp = last.pre
           /\ last.cmds = <<CmdReagent(last.vol, LocOf(last.pre, last.id))>>

\* a load to a bound id when every slot of the liquid handler is in use
C19_Witness ==
    /\ last.op = "load"
    /\ is_exist_location(last.pre, last.id)
    /\ OnLH(last.pre, last.id)
    /\ AllSlotsUsed(last.pre)
    /\ last.fault = ""
    /\ TheExp.lh_slots_used = last.pre.lh_slots_used

\* C20: a discard of a bound id returns; with release_labware it has sent
\* the return to storage and the id is unbound after it, its liquid-handler
\* slot out of the slots in use when no other id is bound there; without
\* release_labware the experiment is as it was.
C20_DiscardReleases ==
    (last.op = "discard" /\ is_exist_location(last.pre, last.id))
        => /\ last.fault = ""
           /\ IF last.flag
              THEN /\ CountCmd(last.cmds, "return_to_storage") = 1
                   /\ ~is_exist_location(TheExp, last.id)
                   /\ (/\ OnLH(last.pre, last.id)
                       /\ \A x \in Bound(last.pre) \ {last.id} :
                             OnLH(last.pre, x) =>
                                LocOf(last.pre, x).slot
                                    # LocOf(last.pre, last.id).slot)
                         => Len(TheExp.lh_slots_used)
                                < Len(last.pre.lh_slots_used)
              ELSE TheExp = last.pre

\* C21: an incubate that has returned has sent one incubation command, for
\* all its targets, has left the experiment as it was, and has not returned
\* before the incubation it started was complete.
C21_IncubateWaits ==
    last.op = "incubate"
        => /\ last.fault = ""
           /\ CountCmd(last.cmds, "incubate") = 1
           /\ Len(last.cmds) = 1
           /\ last.cmds[1].vol = Len(last.ids)
           /\ TheExp = last.pre
           /\ ~device.incubating

RECURSIVE RoundCmds(_, _, _, _, _, _, _)
RoundCmds(exp, target_id, wash_buffer, wash_volume, wash_cycles, mix_cycles, k) ==
    IF k >= wash_cycles * Len(target_id) THEN <<>>
    ELSE LET id == target_id[(k % Len(target_id)) + 1]
         IN transfer(exp, wash_volume, wash_buffer, <<id>>, TRUE,
                     NoneSlot).cmds
            \o mix(exp, id, wash_volume, mix_cycles).cmds
            \o discard(exp, wash_volume, id, FALSE).cmds
            \o RoundCmds(exp, target_id, wash_buffer, wash_volume,
                         wash_cycles, mix_cycles, k + 1)

\* C22: a wash of bound targets on the liquid handler with a bound wash
\* buffer returns, has sent the commands of cycles * targets rounds (cycle
\* by cycle, target by target; transfer, mix, discard), and leaves the
\* experiment as it was.
C22_WashRounds ==
    (/\ last.op = "wash"
     /\ is_exist_location(last.pre, last.id)
     /\ \A i \in DOMAIN last.ids :
           /\ is_exist_location(last.pre, last.ids[i])
           /\ OnLH(last.pre, last.ids[i]))
        => /\ last.fault = ""
           /\ TheExp = last.pre
           /\ last.cmds = RoundCmds(last.pre, last.ids, last.id, last.vol,
                                    last.n, IF last.flag THEN 1 ELSE 0, 0)

\* C23: a call for one experiment (an action, experiment_init or
\* experiment_end) leaves every other registered experiment registered, with
\* its location map and its list of used slots as they were.
C23_ExperimentsIsolated ==
    [][\A b \in DOMAIN exp_list :
          (last'.op \in ActionNames \cup {"experiment_init"}
           /\ last'.exp_id # b)
              => /\ b \in DOMAIN exp_list'
                 /\ exp_list'[b] = exp_list[b]]_vars

\* the same id is bound in two experiments, each time to the slot 0 of the
\* liquid handler, the second binding made by the last call
C23_Witness ==
    /\ last.op = "load"
    /\ last.fault = ""
    /\ last.exp_id = 2
    /\ DOMAIN exp_list = {1, 2}
    /\ \A e \in {1, 2} :
          /\ is_exist_location(exp_list[e], RegId)
          /\ OnLH(exp_list[e], RegId)
          /\ LocOf(exp_list[e], RegId).slot = 0
          /\ exp_list[e].lh_slots_used = <<0>>

\* C24: the ids experiment_init returns grow strictly (the id returned is
\* the counter, which the call has raised and no call lowers), so no id is
\* returned twice, also after an experiment_end; experiment_init adds the
\* id it returns to the registry, experiment_end takes the id it is called
\* with out of it, and no other call changes the ids of the registry.
C24_IdsNeverReused ==
    [][/\ next_exp_id' >= next_exp_id
       /\ last'.op = "experiment_init"
             => /\ last'.id = next_exp_id'
                /\ next_exp_id' > next_exp_id
                /\ last'.id \notin DOMAIN exp_list
                /\ DOMAIN exp_list' = DOMAIN exp_list \cup {last'.id}
       /\ last'.op = "experiment_end"
             => DOMAIN exp_list' = DOMAIN exp_list \ {last'.exp_id}
       /\ last'.op \notin {"experiment_init", "experiment_end"}
             => /\ DOMAIN exp_list' = DOMAIN exp_list
                /\ next_exp_id' = next_exp_id]_vars

\* an experiment_init after the experiment_end of the first experiment: it
\* returns 2, and 2 is the one id of the registry
C24_Witness ==
    /\ last.op = "experiment_init"
    /\ last.id = 2
    /\ DOMAIN exp_list = {2}

\* the number of the well named well_id
WellIndex(well_id) ==
    CHOOSE well \in 0..(WELLPLATE_MAX_WELLS - 1) :
        well_id_int_to_str(well) = well_id

\* the commands of the pipette among cmds, but for the discarding of the tip
Pipetting(cmds) ==
    SelectSeq(cmds, LAMBDA c : c.k \in {"move_pipette", "aspirate", "dispense"})

\* C26: a transfer that returns has sent, destination by destination in the
\* order of the list, the move to the source, the aspirate, the move to the
\* destination and the dispense; the destinations it has bound got the same
\* labware kind, and of two of them the one earlier in the list got the
\* lower slot, or the lower well of the same plate.
C26_TransferInOrder ==
    (last.op = "transfer" /\ last.fault = "")
        => LET p == Pipetting(last.cmds)
               new == {i \in DOMAIN last.ids :
                          ~is_exist_location(last.pre, last.ids[i])}
           IN /\ Len(p) = 4 * Len(last.ids)
              /\ \A i \in DOMAIN last.ids :
                    /\ p[4 * i - 3] = CmdMovePipette(LocOf(last.pre, last.id))
                    /\ p[4 * i - 2] = CmdAspirate(last.vol)
                    /\ p[4 * i - 1] = CmdMovePipette(LocOf(TheExp, last.ids[i]))
                    /\ p[4 * i] = CmdDispense(last.vol)
              /\ \A i, j \in new :
                    i < j =>
                      LET a == LocOf(TheExp, last.ids[i])
                          b == LocOf(TheExp, last.ids[j])
                      IN /\ a.labware = b.labware
                         /\ \/ a.slot < b.slot
                            \/ /\ a.slot = b.slot
                               /\ a.labware = "wellplate"
                               /\ WellIndex(a.well_id) < WellIndex(b.well_id)

\* a transfer to two destinations that were not bound, which are now two
\* wells of one plate
C26_Witness ==
    /\ last.op = "transfer"
    /\ last.fault = ""
    /\ Len(last.ids) = 2
    /\ \A i \in 1..2 : ~is_exist_location(last.pre, last.ids[i])
    /\ LocOf(TheExp, last.ids[1]).labware = "wellplate"
    /\ LocOf(TheExp, last.ids[1]).slot = LocOf(TheExp, last.ids[2]).slot
    /\ LocOf(TheExp, last.ids[1]).well_id # LocOf(TheExp, last.ids[2]).well_id

\* C27: a transfer that fails with NoFreeSlot or CapacityExceeded has failed
\* at one destination of its list, which is not bound; the destinations
\* before it are bound (those on the liquid handler with their slot in
\* use) and each has had its four commands of the pipette, the destinations
\* after it are bound only if they were, every binding made before the call
\* is kept, and no discarding of the tip is sent.
C27_NoRollback ==
    (last.op = "transfer" /\ last.fault \in {"NoFreeSlot", "CapacityExceeded"})
        => /\ \E k \in DOMAIN last.ids :
                /\ ~is_exist_location(TheExp, last.ids[k])
                /\ \A i \in 1..(k - 1) :
                      /\ is_exist_location(TheExp, last.ids[i])
                      /\ OnLH(TheExp, last.ids[i])
                            => LocOf(TheExp, last.ids[i]).slot
                                   \in Range(TheExp.lh_slots_used)
                /\ \A i \in (k + 1)..Len(last.ids) :
                      is_exist_location(TheExp, last.ids[i])
                          <=> is_exist_location(last.pre, last.ids[i])
                /\ Len(Pipetting(last.cmds)) = 4 * (k - 1)
           /\ \A id \in AllIds :
                 is_exist_location(last.pre, id)
                     => /\ is_exist_location(TheExp, id)
                        /\ LocOf(TheExp, id) = LocOf(last.pre, id)
           /\ CountCmd(last.cmds, "discard_tip") = 0

\* a transfer to two destinations, asked to discard the tip, that takes the
\* last slot for the first and finds none for the second
C27_Witness ==
    /\ last.op = "transfer"
    /\ last.fault = "NoFreeSlot"
    /\ last.flag
    /\ Len(last.ids) = 2
    /\ ~is_exist_location(last.pre, last.ids[1])
    /\ is_exist_location(TheExp, last.ids[1])
    /\ LocOf(TheExp, last.ids[1]).slot \in Range(TheExp.lh_slots_used)
    /\ LocOf(TheExp, last.ids[1]).slot \notin Range(last.pre.lh_slots_used)
    /\ ~is_exist_location(TheExp, last.ids[2])
    /\ Len(Pipetting(last.cmds)) = 4

\* C28: when the experiment_init calls of two threads have both returned,
\* the two ids returned differ and both are ids of the registry.
C28_ConcurrentInit ==
    (proc[1].pc = "init_returned" /\ proc[2].pc = "init_returned")
        => /\ proc[1].n # proc[2].n
           /\ {proc[1].n, proc[2].n} \subseteq DOMAIN exp_list

\* C29: when two threads have each bound an id of their own in one
\* experiment, by load or by transfer, and the two ids are on the liquid
\* handler at the same slot, they are wells of the one plate at that slot.
C29_ConcurrentBind ==
    (/\ proc[1].pc = "bound"
     /\ proc[2].pc = "bound"
     /\ proc[1].id # proc[2].id)
        => LET a == LocOf(TheExp, proc[1].id)
               b == LocOf(TheExp, proc[2].id)
           IN (/\ a.equipment = "liquid_handler"
               /\ b.equipment = "liquid_handler"
               /\ a.slot = b.slot)
                  => /\ a.labware = "wellplate"
                     /\ b.labware = "wellplate"

\* the bindings of exp are bindings of after, to the same physical location
BindingsKept(exp, after) ==
    \A i \in DOMAIN exp.location_map :
        \E j \in DOMAIN after.location_map :
            /\ after.location_map[j].id = exp.location_map[i].id
            /\ after.heap[after.location_map[j].ref]
                   = exp.heap[exp.location_map[i].ref]

\* C30: a load, a transfer, an incubate or a discard without release,
\* whether it returns or raises, leaves every id that was bound bound to the
\* physical location it had; and after any call but a discard with release
\* (a mix and a measure_absorbance among them) every id that was bound is
\* bound still.
C30_BindingsKept ==
    /\ (last.op \in {"load", "transfer", "incubate"}
        \/ (last.op = "discard" /\ ~last.flag))
          => BindingsKept(last.pre, TheExp)
    /\ (last.op # "none" /\ ~(last.op = "discard" /\ last.flag))
          => Keys(last.pre) \subseteq Keys(TheExp)

\* a transfer that binds a destination in an experiment in which two ids are
\* bound
C30_Witness ==
    /\ last.op = "transfer"
    /\ last.fault = ""
    /\ Len(last.pre.location_map) >= 2
    /\ Len(TheExp.location_map) > Len(last.pre.location_map)
    /\ BindingsKept(last.pre, TheExp)

\* C31: a mix of an id that is bound on the liquid handler returns; its
\* commands are the move of the pipette to the id's location, mix_count
\* times an aspirate and a dispense, then one discarding of the tip (no
\* placing, no relocation), and the experiment is as it was.
C31_MixInPlace ==
    (/\ last.op = "mix"
     /\ is_exist_location(last.pre, last.id)
     /\ OnLH(last.pre, last.id))
        => /\ last.fault = ""
           /\ Len(last.cmds) = 2 * last.n + 2
           /\ last.cmds[1] = CmdMovePipette(LocOf(last.pre, last.id))
           /\ \A i \in 1..last.n :
                 /\ last.cmds[2 * i] = CmdAspirate(last.vol)
                 /\ last.cmds[2 * i + 1] = CmdDispense(last.vol)
           /\ last.cmds[Len(last.cmds)] = CmdDiscardTip
           /\ TheExp = last.pre

\* a mix of three cycles in a well of a plate on the liquid handler
C31_Witness ==
    /\ last.op = "mix"
    /\ last.fault = ""
    /\ last.n = 3
    /\ is_exist_location(last.pre, last.id)
    /\ OnLH(last.pre, last.id)
    /\ LocOf(last.pre, last.id).labware = "wellplate"
    /\ CountCmd(last.cmds, "aspirate") = 3

\* the names of the wells of a plate
WellNames == {well_id_int_to_str(well) : well \in 0..(WELLPLATE_MAX_WELLS - 1)}

\* the plates on the liquid handler (their slots, in the order of the map)
\* that have a well no id is bound to
OpenPlates(exp) ==
    SelectSeq(PlateSlots(exp, 1, <<>>),
              LAMBDA slot : WellsAt(exp, slot) # WellNames)

\* the first well of the plate at slot that no id is bound to
LowestFreeWell(exp, slot) ==
    CHOOSE well \in 0..(WELLPLATE_MAX_WELLS - 1) :
        /\ well_id_int_to_str(well) \notin WellsAt(exp, slot)
        /\ \A v \in 0..(well - 1) : well_id_int_to_str(v) \in WellsAt(exp, slot)

\* what the last call, an allocation or a transfer to one id that was not
\* bound, was given: the location, and whether the labware was to be placed
Given ==
    IF last.op = "allocate"
    THEN [loc |-> last.ret.loc, is_new |-> last.ret.is_new]
    ELSE [loc |-> LocOf(TheExp, last.ids[1]),
          is_new |-> CountCmd(last.cmds, "place") = 1]

\* the last call had a wellplate chosen for it
ChoseWellplate ==
    \/ /\ last.op = "allocate"
       /\ DecideLabware(last.vol, last.n) = "wellplate"
    \/ /\ last.op = "transfer"
       /\ Len(last.ids) = 1
       /\ ~is_exist_location(last.pre, last.ids[1])
       /\ is_exist_location(last.pre, last.id)
       /\ DecideLabware(last.vol, 1) = "wellplate"

\* C32: when a wellplate is chosen and a plate on the liquid handler has a
\* free well, the call succeeds, whatever the slots in use, with the lowest
\* free well of the first such plate, nothing to place and no free slot
\* taken;
\* when no plate has a free well and a slot is free, it gives the well A0 of
\* a new plate, to be placed, at the lowest free slot.  So transfers of 50ul
\* each to a new id fill one plate well by well, and only the transfer
\* after the last well of the plate places a second plate.
C32_PlatePacking ==
    ChoseWellplate =>
        IF OpenPlates(last.pre) # <<>>
        THEN /\ last.fault = ""
             /\ Given.loc =
                    Location("liquid_handler", OpenPlates(last.pre)[1],
                             "wellplate",
                             well_id_int_to_str(
                                 LowestFreeWell(last.pre,
                                                OpenPlates(last.pre)[1])))
             /\ ~Given.is_new
             /\ FreeSlots(TheExp) = FreeSlots(last.pre)
        ELSE FreeSlots(last.pre) # {}
                 => /\ last.fault = ""
                    /\ Given.is_new
                    /\ Given.loc.labware = "wellplate"
                    /\ Given.loc.well_id = "A0"
                    /\ Given.loc.slot \in FreeSlots(last.pre)
                    /\ \A slot \in FreeSlots(last.pre) : Given.loc.slot <= slot

\* the transfer after the one that took the last well of the first plate: it
\* places a second plate and gives its well A0
C32_Witness ==
    /\ last.op = "transfer"
    /\ last.fault = ""
    /\ ChoseWellplate
    /\ Cardinality(WellsAt(last.pre, 1)) = WELLPLATE_MAX_WELLS
    /\ OpenPlates(last.pre) = <<>>
    /\ LocOf(TheExp, last.ids[1]) =
           Location("liquid_handler", 2, "wellplate", "A0")
    /\ CountCmd(last.cmds, "place") = 1

\* the ids of exp bound on the liquid handler at slot
IdsAtSlot(exp, slot) ==
    {exp.location_map[i].id : i \in {j \in DOMAIN exp.location_map :
        /\ exp.heap[exp.location_map[j].ref].equipment = "liquid_handler"
        /\ exp.heap[exp.location_map[j].ref].slot = slot}}

\* C33: release_location of an id that is not bound fails with NotBound and
\* changes nothing; of a bound id it returns, that id is bound no more and
\* every other binding is as it was; and if the id was on the liquid handler
\* its slot is free after the call exactly when no id is bound at that slot
\* any more.
C33_Release ==
    last.op = "release" =>
        IF ~is_exist_location(last.pre, last.id)
        THEN last.fault = "NotBound" /\ TheExp = last.pre
        ELSE /\ last.fault = ""
             /\ Keys(TheExp) = Keys(last.pre) \ {last.id}
             /\ BindingsKept(TheExp, last.pre)
             /\ OnLH(last.pre, last.id)
                   => LET slot == LocOf(last.pre, last.id).slot
                      IN slot \in FreeSlots(TheExp)
                             <=> IdsAtSlot(TheExp, slot) = {}

\* the release of one of two ids bound to wells of the plate at slot 1: the
\* other is bound still and the slot is not free
C33_Witness ==
    /\ last.op = "release"
    /\ last.fault = ""
    /\ LocOf(last.pre, last.id).labware = "wellplate"
    /\ IdsAtSlot(last.pre, 1) = Ids
    /\ Cardinality(IdsAtSlot(TheExp, 1)) = NumIds - 1
    /\ 1 \notin FreeSlots(TheExp)

\* the workbench slots at which exp has ids other than those of the set ids
WorkbenchSlotsOfOthers(exp, ids) ==
    {exp.heap[exp.location_map[i].ref].slot :
        i \in {j \in DOMAIN exp.location_map :
                  /\ exp.location_map[j].id \notin ids
                  /\ exp.heap[exp.location_map[j].ref].equipment = "workbench"}}

\* C34: a measure_absorbance that returns has put none of its ids at a
\* workbench slot that an id it did not measure held before the call (with
\* no such slot left it fails with NoFreeWorkbenchSlot).
C34_WorkbenchSlotFree ==
    (last.op = "measure_absorbance" /\ last.fault = "")
        => \A i \in DOMAIN Measured :
              (/\ is_exist_location(TheExp, Measured[i])
               /\ LocOf(TheExp, Measured[i]).equipment = "workbench")
                  => LocOf(TheExp, Measured[i]).slot
                         \notin WorkbenchSlotsOfOthers(last.pre, Range(Measured))

\* how many times slot is in lh_slots_used
TimesUsed(exp, slot) ==
    Cardinality({i \in DOMAIN exp.lh_slots_used : exp.lh_slots_used[i] = slot})

\* C35: in every state lh_slots_used holds each slot of the liquid handler as
\* many times as there are ids bound on the liquid handler at that slot (so
\* a slot that no id is at any more is free).
C35_SlotAccounting ==
    \A e \in DOMAIN exp_list, slot \in 0..(LH_MAX_SLOTS - 1) :
        TimesUsed(exp_list[e], slot) = Cardinality(IdsAtSlot(exp_list[e], slot))

\* C36: no id is bound on the liquid handler at the slot of the waste
\* reservoir, so a discard that pipettes into the waste reservoir moves the
\* pipette to a slot that holds no labware of the client.
C36_WasteSlotReserved ==
    (/\ last.op = "discard"
     /\ \E i \in DOMAIN last.cmds : last.cmds[i] = CmdMovePipette(waste_reservoir))
        => /\ IdsAtSlot(last.pre, waste_reservoir.slot) = {}
           /\ IdsAtSlot(TheExp, waste_reservoir.slot) = {}

\* C37: every move of the pipette that a transfer sends is to a location on
\* the liquid handler.
C37_PipetteOnHandler ==
    last.op = "transfer"
        => \A i \in DOMAIN last.cmds :
              last.cmds[i].k = "move_pipette"
                  => last.cmds[i].loc.equipment = "liquid_handler"

\* the ids a load or a transfer moves its volume into
Destinations == IF last.op = "load" THEN {last.id} ELSE Range(last.ids)

\* C38: a load or a transfer that returns has moved into each destination
\* a volume that is at most the max capacity of the labware the destination
\* is bound to, whether the call has bound it or it was bound before.
C38_VolumeFits ==
    (last.op \in {"load", "transfer"} /\ last.fault = "")
        => \A id \in Destinations :
              last.vol <= max_capacity(LocOf(TheExp, id).labware)

\* C39: after a measure_absorbance that has moved a plate from the liquid
\* handler to the workbench, no id that was bound at the slot the plate had
\* is bound on the liquid handler at that slot, and get_empty_well gives no
\* well at that slot.
C39_PlateMovesWhole ==
    (/\ PlatePath
     /\ last.fault = ""
     /\ Len(Measured) > 0
     /\ OnLH(last.pre, Measured[1]))
        => LET slot == LocOf(last.pre, Measured[1]).slot
           IN /\ IdsAtSlot(last.pre, slot) \cap IdsAtSlot(TheExp, slot) = {}
              /\ get_empty_well(TheExp) # NoLoc
                    => get_empty_well(TheExp).slot # slot

\* the slots at which exp has ids on the liquid handler
SlotsInUse(exp) ==
    {exp.heap[exp.location_map[i].ref].slot :
        i \in {j \in DOMAIN exp.location_map :
                  exp.heap[exp.location_map[j].ref].equipment = "liquid_handler"}}

\* C40: in every state every id bound on the liquid handler is at a slot in
\* 0..LH_MAX_SLOTS-1, every id bound to a wellplate is at a well whose name
\* well_id_int_to_str gives for a well in 0..WELLPLATE_MAX_WELLS-1, these
\* names differ from well to well (there are WELLPLATE_MAX_WELLS of them),
\* and at most LH_MAX_SLOTS slots of the liquid handler are in use.
C40_LocationsInRange ==
    /\ \A e \in DOMAIN exp_list :
          /\ SlotsInUse(exp_list[e]) \subseteq 0..(LH_MAX_SLOTS - 1)
          /\ Cardinality(SlotsInUse(exp_list[e])) <= LH_MAX_SLOTS
          /\ \A i \in DOMAIN exp_list[e].location_map :
                LET l == exp_list[e].heap[exp_list[e].location_map[i].ref]
                IN l.labware = "wellplate" => l.well_id \in WellNames
    /\ Cardinality(WellNames) = WELLPLATE_MAX_WELLS

\* the transfer that takes the last well, L7, of a plate at the last slot, with
\* every slot of the liquid handler in use
C40_Witness ==
    /\ last.op = "transfer"
    /\ last.fault = ""
    /\ LocOf(TheExp, last.ids[1]) =
           Location("liquid_handler", LH_MAX_SLOTS - 1, "wellplate",
                    well_id_int_to_str(WELLPLATE_MAX_WELLS - 1))
    /\ SlotsInUse(TheExp) = 0..(LH_MAX_SLOTS - 1)
    /\ Cardinality(WellsAt(TheExp, LH_MAX_SLOTS - 1)) = WELLPLATE_MAX_WELLS

====
